---- MODULE Spec2Model ----
(***************************************************************************)
(* A model of link-guardian: the breadth-first crawl of src/crawl/queue.rs,*)
(* the bounded-concurrency link checker of src/checker/http.rs, and the    *)
(* two scans of src/main.rs that put them together.                        *)
(*                                                                         *)
(* A URL text (a Rust String holding a URL or an href) is a record of its  *)
(* syntactic parts as written: two texts are the same String exactly when  *)
(* the records are equal.  Url::parse and Url::join are modelled by what   *)
(* they do to these parts (scheme and host lower-cased, an empty path of a *)
(* special scheme becoming "/"), so the text that comes back from a parse  *)
(* can differ from the text that went in.                                  *)
(***************************************************************************)
EXTENDS Integers, Sequences, FiniteSets, Bags, TLC

VARIABLES
    \* ---- crawl_website (src/crawl/queue.rs) ----
    start_url,      \* argument: the text of the start URL
    max_depth,      \* argument
    site,           \* the web site crawled: path -> what a GET of it returns
    pc,             \* position of the crawl's control flow
    base_domain,    \* Option<&str>: <<>> or <<domain>>
    queue,          \* VecDeque<CrawlItem>
    visited,        \* HashSet<String>
    results,        \* Vec<(String, String)>
    item,           \* the CrawlItem bound by the current loop iteration
    crawl_ret,      \* "none" while running, then "ok" or "err"
    dequeued,       \* log: every item pop_front returned, in order
    requests,       \* log: every URL a GET was sent for, in order
    \* ---- check_links (src/checker/http.rs) ----
    urls,           \* argument: Vec<String>
    transport,      \* the network: URL -> the outcomes a probe of it can have
    vpc,            \* position of check_links
    next_url,       \* how many elements stream::iter has handed out
    in_progress,    \* buffer_unordered's queue of running futures (a bag)
    output,         \* the Vec being collected
    redirects,      \* log: every redirect the client followed (a bag)
    \* ---- the pure functions, applied to one input ----
    arg,            \* the input
    ret,            \* <<>> before the call, <<result>> after
    \* ---- main, handle_github_scan, handle_site_scan (src/main.rs) ----
    command,        \* cli.command
    readme,         \* the repository: branch -> what a GET of its README.md returns
    mpc,            \* position of main
    files,          \* Vec<(String, String)> of fetch_repo_files
    exit_code,      \* <<>> while running, then <<code>>
    \* ---- the process as seen from outside ----
    wire            \* log: every request sent, every outcome received and
                    \* every sleep completed, in order

crawl_vars  == <<start_url, max_depth, site, pc, base_domain, queue, visited,
                 results, item, crawl_ret, dequeued, requests>>
verify_vars == <<urls, transport, vpc, next_url, in_progress, output, redirects>>
fn_vars     == <<arg, ret>>
main_vars   == <<command, readme, mpc, files, exit_code>>
vars        == <<crawl_vars, verify_vars, fn_vars, main_vars, wire>>

(***************************************************************************)
(* Bounds of the model.                                                    *)
(***************************************************************************)
MaxDepthBound == 3      \* max_depth ranges over 0..MaxDepthBound
MaxUrls == 3            \* check_links inputs of up to MaxUrls URLs
MaxLoad == 200          \* the largest check_links input of the load runs
MaxStatusCode == 999    \* status codes range over 100..MaxStatusCode

(***************************************************************************)
(* Option<T>: None is the empty sequence, Some(v) a sequence of one.       *)
(***************************************************************************)
None == <<>>
Some(v) == <<v>>
IsSome(o) == o # <<>>
Unwrap(o) == o[1]

(***************************************************************************)
(* The entries of the wire log.  by is who acts: "crawl" (fetch_page and   *)
(* the sleep of crawl_website), "check" (check_single_link), "redirect"    *)
(* (the client following a redirect inside a send) or "github"             *)
(* (fetch_file).  for is the URL text the caller asked about, url the URL  *)
(* the request goes to.                                                    *)
(***************************************************************************)
Sent(by, for, method, url) ==
    [ev |-> "request", by |-> by, for |-> for, method |-> method, url |-> url,
     outcome |-> None]
Received(by, for, method, url, outcome) ==
    [ev |-> "answer", by |-> by, for |-> for, method |-> method, url |-> url,
     outcome |-> Some(outcome)]
Returned(by, for, method, outcome) ==
    [ev |-> "returned", by |-> by, for |-> for, method |-> method, url |-> for,
     outcome |-> Some(outcome)]
Slept(by, for) ==
    [ev |-> "sleep", by |-> by, for |-> for, method |-> "", url |-> for,
     outcome |-> None]

(***************************************************************************)
(* URL texts.  A path is written as an absolute flag and its segments:     *)
(* "" is Path(FALSE, <<>>), "/" is Path(TRUE, <<"">>), "/docs" is          *)
(* Path(TRUE, <<"docs">>) and the relative "docs" is Path(FALSE,<<"docs">>)*)
(***************************************************************************)
Path(abs, segs) == [abs |-> abs, segs |-> segs]
Text(scheme, host, path, frag) ==
    [scheme |-> scheme, host |-> host, path |-> path, frag |-> frag]

EmptyPath == Path(FALSE, <<>>)
RootPath  == Path(TRUE, <<"">>)
DocsPath  == Path(TRUE, <<"docs">>)
PagePath  == Path(TRUE, <<"page">>)

\* ASCII lower-casing, over the scheme and host spellings of the model.
Lower(s) ==
    CASE s = "HTTPS" -> "https"
      [] s = "Example.COM" -> "example.com"
      [] s = "MAILTO" -> "mailto"
      [] OTHER -> s

\* The url crate's special schemes (those with a host and a "/" root path).
IsSpecial(scheme) == scheme \in {"http", "https", "ws", "wss", "ftp", "file"}

\* Whether a host is an IP address rather than a domain name.
IsIpAddress(host) == host \in {"127.0.0.1"}

\* Url::parse(text): Err for a text with no scheme (a relative reference) or
\* a special scheme with no host; otherwise the normalised URL.
UrlParse(t) ==
    LET scheme == Lower(t.scheme) IN
    IF t.scheme = "" \/ (IsSpecial(scheme) /\ t.host = "")
    THEN None
    ELSE Some(Text(scheme, Lower(t.host),
                   IF IsSpecial(scheme) /\ t.path = EmptyPath
                   THEN RootPath ELSE t.path,
                   t.frag))

\* Url::to_string / Url::as_str: the text of a parsed URL (already normal).
UrlToString(u) == u

\* Url::domain(): the host when it is a domain name.
Domain(u) ==
    IF u.host = "" \/ IsIpAddress(u.host) THEN None ELSE Some(u.host)

\* Url::join(base, href): href parsed with base as its base URL.
UrlJoin(base, href) ==
    IF href.scheme # "" THEN UrlParse(href)
    ELSE IF href.host # ""
    THEN UrlParse(Text(base.scheme, href.host, href.path, href.frag))
    ELSE IF href.path = EmptyPath
    THEN Some(Text(base.scheme, base.host, base.path, href.frag))
    ELSE IF href.path.abs
    THEN Some(Text(base.scheme, base.host, href.path, href.frag))
    ELSE Some(Text(base.scheme, base.host,
                   Path(TRUE, SubSeq(base.path.segs, 1, Len(base.path.segs) - 1)
                              \o href.path.segs),
                   href.frag))

\* str::starts_with for the four prefixes resolve_link tests.
StartsWithHash(href) ==
    href.scheme = "" /\ href.host = "" /\ href.path = EmptyPath /\ href.frag # ""
StartsWithScheme(href, prefix) == href.scheme = prefix

(***************************************************************************)
(* The texts of the model.                                                 *)
(***************************************************************************)
SeedPage   == Text("https", "example.com", PagePath, "")      \* https://example.com/page
SeedBare   == Text("https", "example.com", EmptyPath, "")     \* https://example.com
SeedUpper  == Text("HTTPS", "Example.COM", PagePath, "")      \* HTTPS://Example.COM/page
SeedRel    == Text("", "", DocsPath, "")                      \* /docs
SeedIp     == Text("http", "127.0.0.1", RootPath, "")         \* http://127.0.0.1/
SeedMailto == Text("mailto", "", Path(FALSE, <<"test@example.com">>), "")

HDocs     == Text("", "", DocsPath, "")                       \* /docs
HPage     == Text("", "", PagePath, "")                       \* /page
HRel      == Text("", "", Path(FALSE, <<"docs">>), "")        \* docs
HDocsFrag == Text("", "", DocsPath, "section")                \* /docs#section
HFrag     == Text("", "", EmptyPath, "section")               \* #section
HRoot     == Text("https", "example.com", EmptyPath, "")      \* https://example.com
HUpper    == Text("HTTPS", "Example.COM", DocsPath, "")       \* HTTPS://Example.COM/docs
HOther    == Text("https", "other.com", EmptyPath, "")        \* https://other.com
HSub      == Text("https", "sub.example.com", RootPath, "")   \* https://sub.example.com/
HFtp      == Text("ftp", "example.com", DocsPath, "")         \* ftp://example.com/docs
HMailto   == Text("mailto", "", Path(FALSE, <<"test@example.com">>), "")
HTel      == Text("tel", "", Path(FALSE, <<"+15550100">>), "")
HJs       == Text("javascript", "", Path(FALSE, <<"void(0)">>), "")
HMailtoUpper == Text("MAILTO", "", Path(FALSE, <<"test@example.com">>), "")

UrlDocs  == Text("https", "example.com", DocsPath, "")        \* https://example.com/docs
UrlRoot  == Text("https", "example.com", RootPath, "")        \* https://example.com/
UrlOther == Text("https", "other.com", RootPath, "")          \* https://other.com/

StartUrls == {SeedPage, SeedBare, SeedUpper, SeedRel, SeedIp, SeedMailto}

(***************************************************************************)
(* The site.  An HTML page is the sequence of the href values of its       *)
(* a[href] elements, in document order.  A GET of a path of the site is    *)
(* answered by a transport error, a 404, or a 200 with a page.             *)
(***************************************************************************)
SiteHost == "example.com"
SitePaths == {RootPath, DocsPath, PagePath}

Htmls == {
    <<>>,
    <<HDocs, HOther>>,
    <<HRoot, HPage>>,
    <<HDocs, HDocs>>,
    <<HDocs, HRoot, HDocs>>,
    <<HSub, HFtp>>,
    <<HFrag, HMailto, HUpper>>,
    <<HRel, HDocsFrag>>,
    <<HTel, HJs, HPage>> }

Unreachable == [kind |-> "error", code |-> 0, body |-> <<>>]
HttpPage(code, html) == [kind |-> "response", code |-> code, body |-> html]
Pages == {Unreachable, HttpPage(404, <<>>)} \cup {HttpPage(200, h) : h \in Htmls}
Sites == [SitePaths -> Pages]

\* What the server answers to a GET of the URL text: reqwest parses the
\* text, and the request goes to the host and path of the parsed URL.
Serve(s, url) ==
    LET p == UrlParse(url) IN
    IF ~IsSome(p) THEN Unreachable
    ELSE IF Unwrap(p).scheme \notin {"http", "https"} THEN Unreachable
    ELSE IF Unwrap(p).host # SiteHost \/ Unwrap(p).path \notin SitePaths
    THEN Unreachable
    ELSE s[Unwrap(p).path]

\* StatusCode::is_success
IsSuccess(code) == 200 <= code /\ code <= 299

\* fetch_page: Ok(html) for a 2xx response, Err otherwise.
FetchPage(s, url) ==
    LET r == Serve(s, url) IN
    IF r.kind = "error" THEN None
    ELSE IF ~IsSuccess(r.code) THEN None
    ELSE Some(r.body)

(***************************************************************************)
(* resolve_link and extract_same_domain_links.                             *)
(***************************************************************************)
\* Mutant of ResolveLink: the href is parsed on its own, never joined.
ResolveLinkNoJoin(base, href) ==
    IF \/ StartsWithHash(href)
       \/ StartsWithScheme(href, "mailto")
       \/ StartsWithScheme(href, "tel")
       \/ StartsWithScheme(href, "javascript")
    THEN None
    ELSE LET j == UrlParse(href) IN
         IF IsSome(j) THEN Some(UrlToString(Unwrap(j))) ELSE None

ResolveLink(base, href) ==
    IF \/ StartsWithHash(href)
       \/ StartsWithScheme(href, "mailto")
       \/ StartsWithScheme(href, "tel")
       \/ StartsWithScheme(href, "javascript")
    THEN None
    ELSE LET j == UrlJoin(base, href) IN
         IF IsSome(j) THEN Some(UrlToString(Unwrap(j))) ELSE None

\* Mutant of SameDomainFilter: the domain is not compared.
SchemeOnlyFilter(parsed, domain) ==
    parsed.scheme \in {"http", "https"}

\* The test of lines 172-173 on the parsed absolute URL.
SameDomainFilter(parsed, domain) ==
    /\ parsed.scheme \in {"http", "https"}
    /\ Domain(parsed) = Some(domain)

\* The links the loop of lines 159-179 pushes for the hrefs from index i on.
RECURSIVE ExtractFrom(_, _, _, _)
ExtractFrom(html, i, base, domain) ==
    IF i > Len(html) THEN <<>>
    ELSE LET absolute_url == ResolveLink(base, html[i])
             rest == ExtractFrom(html, i + 1, base, domain)
         IN  IF ~IsSome(absolute_url) THEN rest
             ELSE LET parsed == UrlParse(Unwrap(absolute_url)) IN
                  IF IsSome(parsed) /\ SameDomainFilter(Unwrap(parsed), domain)
                  THEN <<Unwrap(absolute_url)>> \o rest
                  ELSE rest

ExtractSameDomainLinks(html, page_url, domain) ==
    LET base == UrlParse(page_url) IN
    IF ~IsSome(base) THEN <<>>
    ELSE ExtractFrom(html, 1, Unwrap(base), domain)

(***************************************************************************)
(* crawl_website.                                                          *)
(***************************************************************************)
CrawlItem(url, depth) == [url |-> url, depth |-> depth]
NoItem == CrawlItem(Text("", "", EmptyPath, ""), 0)
NoSite == [p \in SitePaths |-> Unreachable]
NoCommand == [kind |-> "none", url |-> Text("", "", EmptyPath, ""), json |-> FALSE,
              max_depth |-> 0]
NoReadme == [main |-> Unreachable, master |-> Unreachable]

\* The state at the call of crawl_website, for every start URL, depth limit
\* and site of the model; the other components are not running.
CrawlInit ==
    /\ start_url \in StartUrls
    /\ max_depth \in 0..MaxDepthBound
    /\ site \in Sites
    /\ pc = "start" /\ base_domain = None /\ queue = <<>> /\ visited = {}
    /\ results = <<>> /\ item = NoItem /\ crawl_ret = "none"
    /\ dequeued = <<>> /\ requests = <<>>
    /\ urls = <<>> /\ transport = <<>> /\ vpc = "idle" /\ next_url = 0
    /\ in_progress = EmptyBag /\ output = <<>> /\ redirects = EmptyBag
    /\ arg = <<>> /\ ret = None
    /\ command = NoCommand /\ readme = NoReadme /\ mpc = "idle" /\ files = <<>>
    /\ exit_code = None
    /\ wire = <<>>

\* Mutant of StartCheck: the domain is not asked for.
StartCheckParseOnly(url) ==
    IF ~IsSome(UrlParse(url)) THEN "invalid_url" ELSE "ok"

\* Lines 49-55: what the validation of the start URL ends in.
StartCheck(url) ==
    LET start == UrlParse(url) IN
    IF ~IsSome(start) THEN "invalid_url"
    ELSE IF ~IsSome(Domain(Unwrap(start))) THEN "no_domain"
    ELSE "ok"

\* Lines 49-55: the start URL does not parse, or has no domain: Err.
CrawlReject ==
    /\ pc = "start"
    /\ StartCheck(start_url) # "ok"
    /\ pc' = "done" /\ crawl_ret' = "err"
    /\ UNCHANGED <<wire, start_url, max_depth, site, base_domain, queue, visited,
                   results, item, dequeued, requests, verify_vars, fn_vars, main_vars>>

\* Lines 58-60: Client::builder().build() fails: Err.
CrawlClientError ==
    /\ pc = "start"
    /\ StartCheck(start_url) = "ok"
    /\ pc' = "done" /\ crawl_ret' = "err"
    /\ UNCHANGED <<wire, start_url, max_depth, site, base_domain, queue, visited,
                   results, item, dequeued, requests, verify_vars, fn_vars, main_vars>>

\* Mutant of SeedItem: depths are counted from 0.
SeedItemDepthZero(url) == CrawlItem(url, 0)

\* The item the queue is seeded with (lines 65-68).
SeedItem(url) == CrawlItem(url, 1)

\* Lines 49-74: validation passes, the queue is seeded.
CrawlStart ==
    /\ pc = "start"
    /\ StartCheck(start_url) = "ok"
    /\ base_domain' = Domain(Unwrap(UrlParse(start_url)))
    /\ queue' = <<SeedItem(start_url)>>
    /\ visited' = {}
    /\ results' = <<>>
    /\ pc' = "loop"
    /\ UNCHANGED <<wire, start_url, max_depth, site, item, crawl_ret, dequeued, requests,
                   verify_vars, fn_vars, main_vars>>

\* Mutant of AtLoopHead: fetches are started without being awaited, so the
\* loop goes on while a fetch is outstanding.
AtLoopHeadOrFetching(at) == at \in {"loop", "fetch"}

\* Line 77: the loop condition is evaluated by the one control flow of
\* crawl_website, which is not suspended in an await.
AtLoopHead(at) == at = "loop"

\* Mutant of AlreadyVisited: the visited set is not consulted.
NeverVisited(v, it) == FALSE

\* Line 79: whether the dequeued item is skipped.
AlreadyVisited(v, it) == it.url \in v

\* Mutant of DequeueSkip: the visited item is looked at (front()) and not
\* removed, and the loop goes on.
DequeueSkipNoPop ==
    /\ AtLoopHead(pc) /\ queue # <<>>
    /\ AlreadyVisited(visited, Head(queue))
    /\ UNCHANGED vars

\* Lines 77-81: pop_front, the item's URL is already visited: continue.
DequeueSkip ==
    /\ AtLoopHead(pc) /\ queue # <<>>
    /\ AlreadyVisited(visited, Head(queue))
    /\ item' = Head(queue)
    /\ queue' = Tail(queue)
    /\ dequeued' = Append(dequeued, Head(queue))
    /\ UNCHANGED <<wire, start_url, max_depth, site, pc, base_domain, visited,
                   results, crawl_ret, requests, verify_vars, fn_vars, main_vars>>

\* Lines 77-89 and 124: pop_front, mark visited, send the GET.
DequeueFetch ==
    /\ AtLoopHead(pc) /\ queue # <<>>
    /\ ~AlreadyVisited(visited, Head(queue))
    /\ item' = Head(queue)
    /\ queue' = Tail(queue)
    /\ dequeued' = Append(dequeued, Head(queue))
    /\ visited' = visited \cup {Head(queue).url}
    /\ requests' = Append(requests, Head(queue).url)
    /\ pc' = "fetch"
    /\ wire' = Append(wire, Sent("crawl", Head(queue).url, "GET", Head(queue).url))
    /\ UNCHANGED <<start_url, max_depth, site, base_domain, results, crawl_ret,
                   verify_vars, fn_vars, main_vars>>

\* Mutant of ShouldExpand: off by one.
ShouldExpandInclusive(it, limit) == it.depth <= limit

\* Line 95: whether the fetched page is expanded.
ShouldExpand(it, limit) == it.depth < limit

\* Mutant of PushBack: the new items go to the front of the queue.
PushFront(q, items) == items \o q

\* Line 101: VecDeque::push_back of each new item, in order.
PushBack(q, items) == q \o items

\* Mutant of NewItems: a link gets the depth of the page it was found on.
RECURSIVE NewItemsSameDepth(_, _, _, _)
NewItemsSameDepth(links, i, v, depth) ==
    IF i > Len(links) THEN <<>>
    ELSE IF links[i] \notin v
    THEN <<CrawlItem(links[i], depth - 1)>> \o NewItemsSameDepth(links, i + 1, v, depth)
    ELSE NewItemsSameDepth(links, i + 1, v, depth)

\* Mutant of NewItems: the loop over the links ends at the first push.
RECURSIVE NewItemsFirstOnly(_, _, _, _)
NewItemsFirstOnly(links, i, v, depth) ==
    IF i > Len(links) THEN <<>>
    ELSE IF links[i] \notin v
    THEN <<CrawlItem(links[i], depth)>>
    ELSE NewItemsFirstOnly(links, i + 1, v, depth)

\* Lines 98-106: the items pushed for the extracted links.
RECURSIVE NewItems(_, _, _, _)
NewItems(links, i, v, depth) ==
    IF i > Len(links) THEN <<>>
    ELSE IF links[i] \notin v
    THEN <<CrawlItem(links[i], depth)>> \o NewItems(links, i + 1, v, depth)
    ELSE NewItems(links, i + 1, v, depth)

\* Mutant of AfterPage: no sleep, the loop goes on at once.
AfterPageNoDelay == "loop"

\* Line 111: where the Ok arm goes after the page is processed: into
\* tokio::time::sleep(100ms).await.
AfterPage == "sleep"

\* Lines 90-111: the fetch returned Ok(html).
FetchOk ==
    /\ pc = "fetch"
    /\ LET r == FetchPage(site, item.url) IN
       /\ IsSome(r)
       /\ results' = Append(results, <<item.url, Unwrap(r)>>)
       /\ queue' = IF ShouldExpand(item, max_depth)
                   THEN PushBack(queue, NewItems(
                            ExtractSameDomainLinks(Unwrap(r), item.url,
                                                   Unwrap(base_domain)),
                            1, visited, item.depth + 1))
                   ELSE queue
    /\ pc' = AfterPage
    /\ wire' = Append(wire, Received("crawl", item.url, "GET", item.url, Serve(site, item.url)))
    /\ UNCHANGED <<start_url, max_depth, site, base_domain, visited, item,
                   crawl_ret, dequeued, requests, verify_vars, fn_vars, main_vars>>

\* Mutant of FetchErr: the error is propagated (fetch_page(..).await?).
FetchErrAbort ==
    /\ pc = "fetch"
    /\ ~IsSome(FetchPage(site, item.url))
    /\ pc' = "done" /\ crawl_ret' = "err"
    /\ wire' = Append(wire, Received("crawl", item.url, "GET", item.url, Serve(site, item.url)))
    /\ UNCHANGED <<start_url, max_depth, site, base_domain, queue, visited,
                   results, item, dequeued, requests, verify_vars, fn_vars, main_vars>>

\* Mutant of FetchErr: the URL of the failed page is taken out of visited,
\* so that the page is tried again when it is found again.
FetchErrUnmark ==
    /\ pc = "fetch"
    /\ ~IsSome(FetchPage(site, item.url))
    /\ pc' = "loop"
    /\ visited' = visited \ {item.url}
    /\ wire' = Append(wire, Received("crawl", item.url, "GET", item.url, Serve(site, item.url)))
    /\ UNCHANGED <<start_url, max_depth, site, base_domain, queue,
                   results, item, crawl_ret, dequeued, requests, verify_vars, fn_vars, main_vars>>

\* Mutant of FetchErr: the politeness delay is taken after a failed fetch
\* as well.
FetchErrDelay ==
    /\ pc = "fetch"
    /\ ~IsSome(FetchPage(site, item.url))
    /\ pc' = "sleep"
    /\ wire' = Append(wire, Received("crawl", item.url, "GET", item.url, Serve(site, item.url)))
    /\ UNCHANGED <<start_url, max_depth, site, base_domain, queue, visited,
                   results, item, crawl_ret, dequeued, requests, verify_vars, fn_vars, main_vars>>

\* Lines 113-115: the fetch returned Err: a warning, and the loop goes on.
FetchErr ==
    /\ pc = "fetch"
    /\ ~IsSome(FetchPage(site, item.url))
    /\ pc' = "loop"
    /\ wire' = Append(wire, Received("crawl", item.url, "GET", item.url, Serve(site, item.url)))
    /\ UNCHANGED <<start_url, max_depth, site, base_domain, queue, visited,
                   results, item, crawl_ret, dequeued, requests, verify_vars, fn_vars, main_vars>>

\* Line 111: the politeness sleep is over.
SleepDone ==
    /\ pc = "sleep"
    /\ pc' = "loop"
    /\ wire' = Append(wire, Slept("crawl", item.url))
    /\ UNCHANGED <<start_url, max_depth, site, base_domain, queue, visited,
                   results, item, crawl_ret, dequeued, requests, verify_vars, fn_vars, main_vars>>

\* Lines 77 and 119: the queue is empty, Ok(results).
CrawlReturn ==
    /\ AtLoopHead(pc) /\ queue = <<>>
    /\ pc' = "done" /\ crawl_ret' = "ok"
    /\ UNCHANGED <<wire, start_url, max_depth, site, base_domain, queue, visited,
                   results, item, dequeued, requests, verify_vars, fn_vars, main_vars>>

CrawlNext ==
    \/ CrawlReject
    \/ CrawlClientError
    \/ CrawlStart
    \/ DequeueSkip
    \/ DequeueFetch
    \/ FetchOk
    \/ FetchErr
    \/ SleepDone
    \/ CrawlReturn

SpecCrawl == CrawlInit /\ [][CrawlNext]_vars

\* Line 89: fetch_page(..).await is over, with Ok or with Err.
FetchReturns == pc = "fetch" /\ pc' \in {"loop", "sleep"}

\* crawl_website is one task that the runtime keeps polling: the step it is
\* at is taken, and the sleep of line 111 ends. A fetch returns: the client
\* has a timeout of 10 seconds (line 59).
SpecCrawlFair ==
    /\ CrawlInit /\ [][CrawlNext]_vars
    /\ WF_vars(CrawlReject \/ CrawlClientError \/ CrawlStart \/ DequeueSkip
                  \/ DequeueFetch \/ SleepDone \/ CrawlReturn)
    /\ WF_pc(FetchReturns)

(***************************************************************************)
(* The link classifier: analyze_response and categorize_error.             *)
(*                                                                         *)
(* A probe ends in a response (status code, Location header) or in a       *)
(* reqwest::Error (its is_timeout, is_redirect and is_connect flags and    *)
(* its description, a sequence of words).  A header value is its text and  *)
(* whether every byte of it is visible ASCII (what HeaderValue::to_str     *)
(* asks for).                                                              *)
(***************************************************************************)
ConcurrencyLimit == 50

\* A header value: its text, whether every byte is visible ASCII (what
\* HeaderValue::to_str asks for) and whether it is UTF-8.
HeaderValue(text, ascii, utf8) ==
    [text |-> text, visible_ascii |-> ascii, utf8 |-> utf8]

NoText  == Text("", "", EmptyPath, "")                        \* ""
Unknown == Text("", "", Path(FALSE, <<"unknown">>), "")       \* unknown
Response(code, location) == [kind |-> "response", code |-> code, location |-> location]
Failure(timeout, redirect, connect, desc) ==
    [kind |-> "failure", timeout |-> timeout, redirect |-> redirect,
     connect |-> connect, desc |-> desc]

\* LinkStatus: a tag, and the target of a Redirect.
Status(tag) == [tag |-> tag, target |-> None]
Redirect(target) == [tag |-> "Redirect", target |-> Some(target)]
StatusTags == {"Ok", "Redirect", "Broken", "Timeout", "SslError",
               "TooManyRedirects", "DnsError", "Error"}

\* The message: the format string and what is put into it.
Message(fmt, code, target, desc) ==
    [fmt |-> fmt, code |-> code, target |-> target, desc |-> desc]
LinkCheckResult(url, status, message) ==
    [url |-> url, status |-> status, message |-> message]

\* Mutant of IsRedirection: only 301 and 302 count.
IsRedirectionNarrow(code) == code \in {301, 302}

\* StatusCode::is_redirection
IsRedirection(code) == 300 <= code /\ code <= 399

\* HeaderValue::to_str().ok()
ToStr(v) == IF v.visible_ascii THEN Some(v.text) ELSE None

\* Lines 159-164: headers().get("location").and_then(to_str).unwrap_or("unknown")
RedirectTarget(location) ==
    LET text == IF IsSome(location) THEN ToStr(Unwrap(location)) ELSE None IN
    IF IsSome(text) THEN Unwrap(text) ELSE Unknown

AnalyzeResponse(url, response) ==
    LET status_code == response.code IN
    IF IsSuccess(status_code)
    THEN LinkCheckResult(url, Status("Ok"), Message("HTTP {}", status_code, NoText, <<>>))
    ELSE IF IsRedirection(status_code)
    THEN LET redirect_target == RedirectTarget(response.location) IN
         LinkCheckResult(url, Redirect(redirect_target),
                         Message("HTTP {} -> {}", status_code, redirect_target, <<>>))
    ELSE IF status_code \in {404, 410}
    THEN LinkCheckResult(url, Status("Broken"), Message("HTTP {}", status_code, NoText, <<>>))
    ELSE LinkCheckResult(url, Status("Error"), Message("HTTP {}", status_code, NoText, <<>>))

\* str::contains over the words of a description.
Contains(desc, word) == \E i \in 1..Len(desc) : desc[i] = word

\* Mutant of CategorizeError: the description is looked at before the
\* is_connect flag.
CategorizeErrorMarkersFirst(url, error) ==
    LET error_string == error.desc IN
    IF error.timeout
    THEN LinkCheckResult(url, Status("Timeout"),
                         Message("Request timed out", 0, NoText, <<>>))
    ELSE IF error.redirect
    THEN LinkCheckResult(url, Status("TooManyRedirects"),
                         Message("Too many redirects", 0, NoText, <<>>))
    ELSE IF Contains(error_string, "certificate") \/ Contains(error_string, "ssl")
    THEN LinkCheckResult(url, Status("SslError"),
                         Message("SSL certificate error", 0, NoText, <<>>))
    ELSE IF error.connect
    THEN IF Contains(error_string, "dns")
         THEN LinkCheckResult(url, Status("DnsError"),
                              Message("Could not resolve hostname", 0, NoText, <<>>))
         ELSE LinkCheckResult(url, Status("Error"),
                              Message("Connection failed", 0, NoText, <<>>))
    ELSE LinkCheckResult(url, Status("Error"), Message("{}", 0, NoText, error_string))

\* Lines 197-223.
CategorizeError(url, error) ==
    LET error_string == error.desc IN
    IF error.timeout
    THEN LinkCheckResult(url, Status("Timeout"),
                         Message("Request timed out", 0, NoText, <<>>))
    ELSE IF error.redirect
    THEN LinkCheckResult(url, Status("TooManyRedirects"),
                         Message("Too many redirects", 0, NoText, <<>>))
    ELSE IF error.connect
    THEN IF Contains(error_string, "dns")
         THEN LinkCheckResult(url, Status("DnsError"),
                              Message("Could not resolve hostname", 0, NoText, <<>>))
         ELSE LinkCheckResult(url, Status("Error"),
                              Message("Connection failed", 0, NoText, <<>>))
    ELSE IF Contains(error_string, "certificate") \/ Contains(error_string, "ssl")
    THEN LinkCheckResult(url, Status("SslError"),
                         Message("SSL certificate error", 0, NoText, <<>>))
    ELSE LinkCheckResult(url, Status("Error"), Message("{}", 0, NoText, error_string))

\* check_single_link: the HEAD probe of url ended in outcome.
CheckSingleLink(url, outcome) ==
    IF outcome.kind = "response"
    THEN AnalyzeResponse(url, outcome)
    ELSE CategorizeError(url, outcome)

(***************************************************************************)
(* The client of check_links.  It is built with Policy::limited(5): when a *)
(* request is answered by a 301, 302, 303, 307 or 308 whose Location value *)
(* is UTF-8 and joins to a URL, the client does not hand the response to   *)
(* the caller; it sends the request again, to that URL, and send() returns *)
(* what the last request of the chain is answered with, or an error with   *)
(* the is_redirect flag when the policy refuses to go on.                  *)
(***************************************************************************)
MaxRedirects == 5

NoLocation == None
LocationX == Some(HeaderValue(Text("https", "x", EmptyPath, ""), TRUE, TRUE))  \* https://x
LocationBytes == Some(HeaderValue(Text("https", "x", Path(TRUE, <<"<E9>">>), ""), FALSE, FALSE))
LocationOther == Some(HeaderValue(UrlOther, TRUE, TRUE))      \* https://other.com/
Locations == {NoLocation, LocationX, LocationBytes}

\* The statuses the client treats as a redirect of a request without a body.
ShouldRedirect(code) == code \in {301, 302, 303, 307, 308}

\* str::from_utf8 of a header value.
FromUtf8(v) == IF v.utf8 THEN Some(v.text) ELSE None

\* The URL the client is redirected to by the answer to a request to at.
RedirectLocation(at, answer) ==
    IF answer.kind # "response" THEN None
    ELSE IF ~ShouldRedirect(answer.code) THEN None
    ELSE IF ~IsSome(answer.location) THEN None
    ELSE IF ~IsSome(FromUtf8(Unwrap(answer.location))) THEN None
    ELSE UrlJoin(at, Unwrap(FromUtf8(Unwrap(answer.location))))

\* Policy::limited(MaxRedirects): whether one more redirect is followed.
PolicyFollows(hops) == hops < MaxRedirects

\* Whether the client goes on to another request.
Follows(c, answer) ==
    IsSome(RedirectLocation(c.at, answer)) /\ PolicyFollows(c.hops)

RedirectError == Failure(FALSE, TRUE, FALSE, <<"error", "following", "redirect">>)

\* What send() returns when the chain ends with this answer.
SendOutcome(c, answer) ==
    IF IsSome(RedirectLocation(c.at, answer)) THEN RedirectError ELSE answer

(***************************************************************************)
(* check_links: stream::iter(futures).buffer_unordered(50).collect().      *)
(*                                                                         *)
(* Each poll of the buffered stream first moves futures from the iterator  *)
(* into the in-progress queue while it holds fewer than 50, and only then  *)
(* polls the running futures and takes one finished future's result;       *)
(* collect appends it to the Vec.  A running future is the URL text it was *)
(* given, the URL its request is at, and the redirects followed so far;    *)
(* the queue is a bag of them.                                             *)
(***************************************************************************)
Check(url) == [url |-> url, at |-> UrlToString(Unwrap(UrlParse(url))), hops |-> 0]

\* An entry of the redirects log: the request of check c to c.at was
\* answered by answer, and the client sent the request again, to loc.
Hop(c, answer, loc) == [for |-> c.url, from |-> c.at, answer |-> answer, to |-> loc]

ProbeOutcomes == {
    Response(200, NoLocation),
    Response(300, LocationX),
    Response(301, LocationOther),
    Response(404, NoLocation),
    Response(503, NoLocation),
    Failure(TRUE, FALSE, FALSE, <<"operation", "timed", "out">>) }

\* The outcomes that end a send() at once.
FinalOutcomes == {o \in ProbeOutcomes : ~IsSome(RedirectLocation(UrlDocs, o))}

VerifyUrls == {UrlDocs, UrlOther}

\* What the network can answer to a request to one URL: always the same
\* outcome, or a server that fails in one of two ways.
Flaky == {Response(503, NoLocation),
          Failure(TRUE, FALSE, FALSE, <<"operation", "timed", "out">>)}
Nets == {Flaky} \cup {{o} : o \in ProbeOutcomes}

\* The networks of the model: one URL answers in any of these ways, the
\* other is there (200) or gone (404).
Transports ==
    {[u \in VerifyUrls |-> IF u = v THEN n ELSE {Response(code, NoLocation)}] :
        v \in VerifyUrls, n \in Nets, code \in {200, 404}}

UrlLists(max) == UNION {[1..n -> VerifyUrls] : n \in 0..max}

\* Mutant of CanDispatch: the iterator is drained without a limit.
CanDispatchUnbounded(handed_out, total, running) == handed_out < total

\* buffer_unordered(50): a future is taken from the iterator while one is
\* left and fewer than 50 are in progress.
CanDispatch(handed_out, total, running) ==
    handed_out < total /\ running < ConcurrencyLimit

\* Mutant of Spawn: a URL that is already being checked is not checked again.
SpawnOnce(running, url) ==
    IF \E c \in BagToSet(running) : c.url = url
    THEN running ELSE running (+) SetToBag({Check(url)})

\* The future for url enters the in-progress queue.
Spawn(running, url) == running (+) SetToBag({Check(url)})

\* Mutant of Probe: the HEAD is followed by a GET of the same URL.
ProbeTwice(url) ==
    <<Sent("check", url, "HEAD", Check(url).at), Sent("check", url, "GET", Check(url).at)>>

\* Lines 124: the requests check_single_link sends: one HEAD.
Probe(url) == <<Sent("check", url, "HEAD", Check(url).at)>>

\* Mutant of Collect: the results are kept in submission order.
CollectInOrder(out, r, submitted) ==
    LET all == Append(out, r)
        Pos(x) == CHOOSE k \in 1..Len(submitted) : submitted[k] = x.url
    IN  SortSeq(all, LAMBDA a, b : Pos(a) < Pos(b))

\* Mutant of Collect: the checks write their status through one shared
\* buffer, so that a result carries the status of the check that completed
\* before it.
CollectSharedStatus(out, r, submitted) ==
    Append(out, IF out = <<>> THEN r
                ELSE [r EXCEPT !.status = out[Len(out)].status])

\* Line 109: collect() pushes each result as the stream yields it.
Collect(out, r, submitted) == Append(out, r)

\* Lines 85-89: the client is built.
BuildClient ==
    /\ vpc = "start"
    /\ vpc' = "run"
    /\ UNCHANGED <<wire, urls, transport, next_url, in_progress, output, redirects,
                   crawl_vars, fn_vars, main_vars>>

\* Mutant of ClientFailure: the client is built by each check, so that the
\* failure can come after checks were dispatched.
ClientFailureLate(at) == at \in {"start", "run"}

\* Lines 85-89: where Client::builder().build() can fail.
ClientFailure(at) == at = "start"

\* Lines 85-89: the client cannot be built, expect() panics.
BuildClientPanic ==
    /\ ClientFailure(vpc)
    /\ vpc' = "panicked"
    /\ UNCHANGED <<wire, urls, transport, next_url, in_progress, output, redirects,
                   crawl_vars, fn_vars, main_vars>>

\* Lines 93-98, 107-108 and 124: the next future is taken from the iterator
\* and sends its request.
Dispatch ==
    /\ vpc = "run"
    /\ CanDispatch(next_url, Len(urls), BagCardinality(in_progress))
    /\ in_progress' = Spawn(in_progress, urls[next_url + 1])
    /\ next_url' = next_url + 1
    /\ wire' = wire \o Probe(urls[next_url + 1])
    /\ UNCHANGED <<urls, transport, vpc, output, redirects, crawl_vars, fn_vars, main_vars>>

\* Line 124: inside send(), a request is answered by a redirect and the
\* client sends the request again, to the redirect's location.
Redirected ==
    /\ vpc = "run"
    /\ ~CanDispatch(next_url, Len(urls), BagCardinality(in_progress))
    /\ \E c \in BagToSet(in_progress) :
         \E answer \in transport[c.at] :
            /\ Follows(c, answer)
            /\ LET loc == UrlToString(Unwrap(RedirectLocation(c.at, answer))) IN
               /\ in_progress' = (in_progress (-) SetToBag({c}))
                                    (+) SetToBag({[c EXCEPT !.at = loc, !.hops = @ + 1]})
               /\ redirects' = redirects (+) SetToBag({Hop(c, answer, loc)})
    /\ UNCHANGED <<wire, urls, transport, vpc, next_url, output, crawl_vars, fn_vars, main_vars>>

\* Mutant of Complete: the running futures are polled before the queue is
\* filled up again from the iterator.
CompleteBeforeRefill ==
    /\ vpc = "run"
    /\ \E c \in BagToSet(in_progress) :
         \E answer \in transport[c.at] :
            /\ ~Follows(c, answer)
            /\ output' = Collect(output, CheckSingleLink(c.url, SendOutcome(c, answer)),
                                 urls)
            /\ in_progress' = in_progress (-) SetToBag({c})
            /\ wire' = wire \o <<Received("check", c.url, "HEAD", c.at, answer),
                                 Returned("check", c.url, "HEAD", SendOutcome(c, answer))>>
    /\ UNCHANGED <<urls, transport, vpc, next_url, redirects, crawl_vars, fn_vars, main_vars>>

\* Lines 108-110 and 122-137: send() returns, the check ends and its result
\* is collected.
Complete ==
    /\ vpc = "run"
    /\ ~CanDispatch(next_url, Len(urls), BagCardinality(in_progress))
    /\ \E c \in BagToSet(in_progress) :
         \E answer \in transport[c.at] :
            /\ ~Follows(c, answer)
            /\ output' = Collect(output, CheckSingleLink(c.url, SendOutcome(c, answer)),
                                 urls)
            /\ in_progress' = in_progress (-) SetToBag({c})
            /\ wire' = wire \o <<Received("check", c.url, "HEAD", c.at, answer),
                                 Returned("check", c.url, "HEAD", SendOutcome(c, answer))>>
    /\ UNCHANGED <<urls, transport, vpc, next_url, redirects, crawl_vars, fn_vars, main_vars>>

\* Mutant of Finish: a deadline ends the call once every URL has been
\* handed out, whatever is still running.
FinishAtDeadline ==
    /\ vpc = "run"
    /\ next_url = Len(urls)
    /\ vpc' = "done"
    /\ UNCHANGED <<wire, urls, transport, next_url, in_progress, output, redirects,
                   crawl_vars, fn_vars, main_vars>>

\* Lines 109-110: the stream is exhausted, collect returns the Vec.
Finish ==
    /\ vpc = "run"
    /\ next_url = Len(urls)
    /\ in_progress = EmptyBag
    /\ vpc' = "done"
    /\ UNCHANGED <<wire, urls, transport, next_url, in_progress, output, redirects,
                   crawl_vars, fn_vars, main_vars>>

VerifyNext ==
    \/ BuildClient
    \/ BuildClientPanic
    \/ Dispatch
    \/ Redirected
    \/ Complete
    \/ Finish

\* check_links called with every list of up to MaxUrls URLs.
VerifyInit ==
    /\ urls \in UrlLists(MaxUrls)
    /\ transport \in Transports
    /\ vpc = "start" /\ next_url = 0 /\ in_progress = EmptyBag /\ output = <<>> /\ redirects = EmptyBag
    /\ start_url = SeedPage /\ max_depth = 0 /\ site = NoSite
    /\ pc = "idle" /\ base_domain = None /\ queue = <<>> /\ visited = {}
    /\ results = <<>> /\ item = NoItem /\ crawl_ret = "none"
    /\ dequeued = <<>> /\ requests = <<>>
    /\ arg = <<>> /\ ret = None
    /\ command = NoCommand /\ readme = NoReadme /\ mpc = "idle" /\ files = <<>>
    /\ exit_code = None
    /\ wire = <<>>

SpecVerify == VerifyInit /\ [][VerifyNext]_vars

\* check_links is one task that the runtime keeps polling, and every
\* request is answered or fails: the client has a timeout of 10 seconds
\* (line 86).
SpecVerifyFair == SpecVerify /\ WF_vars(VerifyNext)

\* The networks of the load runs: every request ends the same way with no
\* redirect to follow or, for the runs around the limit, one URL redirects
\* to the other, which is there.
RedirectsOnce ==
    [u \in VerifyUrls |-> IF u = UrlDocs THEN {Response(301, LocationOther)}
                          ELSE {Response(200, NoLocation)}]
LoadTransports(n) ==
    {[u \in VerifyUrls |-> {o}] : o \in FinalOutcomes}
    \cup (IF n <= ConcurrencyLimit + 1 THEN {RedirectsOnce} ELSE {})

\* check_links called with one URL repeated: as many as the limit, one less,
\* one more, and MaxLoad.
LoadInit ==
    /\ \E n \in {ConcurrencyLimit - 1, ConcurrencyLimit, ConcurrencyLimit + 1, MaxLoad} :
         \E u \in VerifyUrls : urls = [i \in 1..n |-> u]
    /\ transport \in LoadTransports(Len(urls))
    /\ vpc = "start" /\ next_url = 0 /\ in_progress = EmptyBag /\ output = <<>> /\ redirects = EmptyBag
    /\ start_url = SeedPage /\ max_depth = 0 /\ site = NoSite
    /\ pc = "idle" /\ base_domain = None /\ queue = <<>> /\ visited = {}
    /\ results = <<>> /\ item = NoItem /\ crawl_ret = "none"
    /\ dequeued = <<>> /\ requests = <<>>
    /\ arg = <<>> /\ ret = None
    /\ command = NoCommand /\ readme = NoReadme /\ mpc = "idle" /\ files = <<>>
    /\ exit_code = None
    /\ wire = <<>>

SpecLoad == LoadInit /\ [][VerifyNext]_vars

\* The load runs under the scheduling of SpecVerifyFair.
SpecLoadFair == SpecLoad /\ WF_vars(VerifyNext)

(***************************************************************************)
(* The classifier applied to one response: every status code up to         *)
(* MaxStatusCode with every Location header of the model.                  *)
(***************************************************************************)
ClassifyInit ==
    /\ arg \in [url : {UrlDocs}, code : 100..MaxStatusCode, location : Locations]
    /\ ret = None
    /\ urls = <<>> /\ transport = <<>> /\ vpc = "idle" /\ next_url = 0
    /\ in_progress = EmptyBag /\ output = <<>> /\ redirects = EmptyBag
    /\ start_url = SeedPage /\ max_depth = 0 /\ site = NoSite
    /\ pc = "idle" /\ base_domain = None /\ queue = <<>> /\ visited = {}
    /\ results = <<>> /\ item = NoItem /\ crawl_ret = "none"
    /\ dequeued = <<>> /\ requests = <<>>
    /\ command = NoCommand /\ readme = NoReadme /\ mpc = "idle" /\ files = <<>>
    /\ exit_code = None
    /\ wire = <<>>

Classify ==
    /\ ret = None
    /\ ret' = Some(AnalyzeResponse(arg.url, Response(arg.code, arg.location)))
    /\ UNCHANGED <<wire, arg, crawl_vars, verify_vars, main_vars>>

SpecClassify == ClassifyInit /\ [][Classify]_vars

(***************************************************************************)
(* categorize_error applied to one reqwest::Error: every combination of    *)
(* the three flags with every description of the model.  The descriptions  *)
(* hold every combination of the words the function looks for, and words   *)
(* it does not look for.                                                   *)
(***************************************************************************)
Descriptions == {
    <<"error", "sending", "request">>,
    <<"dns", "error">>,
    <<"invalid", "certificate">>,
    <<"ssl", "handshake">>,
    <<"dns", "error", "certificate">>,
    <<"dns", "error", "ssl">>,
    <<"ssl", "certificate">>,
    <<"dns", "ssl", "certificate">>,
    <<"DNS", "error">>,
    <<"SSL", "routines">>,
    <<"tls", "handshake", "eof">> }

CategorizeInit ==
    /\ arg \in [url : {UrlDocs}, timeout : BOOLEAN, redirect : BOOLEAN,
                connect : BOOLEAN, desc : Descriptions]
    /\ ret = None
    /\ urls = <<>> /\ transport = <<>> /\ vpc = "idle" /\ next_url = 0
    /\ in_progress = EmptyBag /\ output = <<>> /\ redirects = EmptyBag
    /\ start_url = SeedPage /\ max_depth = 0 /\ site = NoSite
    /\ pc = "idle" /\ base_domain = None /\ queue = <<>> /\ visited = {}
    /\ results = <<>> /\ item = NoItem /\ crawl_ret = "none"
    /\ dequeued = <<>> /\ requests = <<>>
    /\ command = NoCommand /\ readme = NoReadme /\ mpc = "idle" /\ files = <<>>
    /\ exit_code = None
    /\ wire = <<>>

Categorize ==
    /\ ret = None
    /\ ret' = Some(CategorizeError(arg.url, Failure(arg.timeout, arg.redirect,
                                                    arg.connect, arg.desc)))
    /\ UNCHANGED <<wire, arg, crawl_vars, verify_vars, main_vars>>

SpecCategorize == CategorizeInit /\ [][Categorize]_vars

(***************************************************************************)
(* The link extractors: extract_html_links (src/checker/html.rs) and       *)
(* extract_markdown_links (src/checker/markdown.rs).  A Markdown text is   *)
(* the sequence of the destinations of its links, in document order.       *)
(***************************************************************************)
\* resolve_url: the href parsed on its own, else joined to the base.
ResolveUrl(base, href) ==
    IF IsSome(UrlParse(href)) THEN Some(UrlToString(Unwrap(UrlParse(href))))
    ELSE IF IsSome(UrlJoin(base, href)) THEN Some(UrlToString(Unwrap(UrlJoin(base, href))))
    ELSE None

\* is_checkable_link and is_http_link: starts_with("http://") or ("https://").
IsHttpLink(t) == t.scheme \in {"http", "https"} /\ t.host # ""

RECURSIVE ExtractHtmlFrom(_, _, _)
ExtractHtmlFrom(html, i, base) ==
    IF i > Len(html) THEN <<>>
    ELSE LET absolute_url == ResolveUrl(base, html[i]) IN
         IF IsSome(absolute_url) /\ IsHttpLink(Unwrap(absolute_url))
         THEN <<Unwrap(absolute_url)>> \o ExtractHtmlFrom(html, i + 1, base)
         ELSE ExtractHtmlFrom(html, i + 1, base)

ExtractHtmlLinks(html, base_url) ==
    IF ~IsSome(UrlParse(base_url)) THEN <<>>
    ELSE ExtractHtmlFrom(html, 1, Unwrap(UrlParse(base_url)))

ExtractMarkdownLinks(markdown) == SelectSeq(markdown, IsHttpLink)

(***************************************************************************)
(* fetch_repo_files (src/github/fetch.rs).                                 *)
(***************************************************************************)
StripWww(host) == CASE host = "www.github.com" -> "github.com" [] OTHER -> host
StripGit(repo) == CASE repo = "repo.git" -> "repo" [] OTHER -> repo

\* Lines 95-98: the text with "https://", "http://" and "www." trimmed off
\* its start, as its parts between the slashes.
TrimmedParts(t) ==
    IF t.scheme \in {"https", "http"} /\ t.host # ""
    THEN <<StripWww(t.host)>> \o t.path.segs
    ELSE IF t.scheme = "" /\ t.host = "" /\ ~t.path.abs /\ t.path.segs # <<>>
    THEN <<StripWww(t.path.segs[1])>> \o Tail(t.path.segs)
    ELSE <<>>

\* parse_github_url: Some(<<owner, repo>>) or None for Err.
ParseGithubUrl(t) ==
    LET parts == TrimmedParts(t) IN
    IF Len(parts) < 2 THEN None
    ELSE IF parts[1] # "github.com" THEN None
    ELSE IF Len(parts) < 3 THEN None
    ELSE Some(<<parts[2], StripGit(parts[3])>>)

\* Lines 49-52 and 60-63.
ReadmeUrl(repo, branch) ==
    Text("https", "raw.githubusercontent.com",
         Path(TRUE, <<repo[1], repo[2], branch, "README.md">>), "")

\* What raw.githubusercontent.com answers to a GET of the URL.
ServeRaw(r, url) ==
    IF url.path.segs[1] # "owner" \/ url.path.segs[2] # "repo"
    THEN HttpPage(404, <<>>)
    ELSE IF url.path.segs[3] = "main" THEN r.main ELSE r.master

\* fetch_file: Ok(content) for a 2xx response, Err otherwise.
FetchFile(r, url) ==
    LET a == ServeRaw(r, url) IN
    IF a.kind = "error" THEN None
    ELSE IF ~IsSuccess(a.code) THEN None
    ELSE Some(a.body)

(***************************************************************************)
(* main, run, handle_github_scan and handle_site_scan (src/main.rs).       *)
(***************************************************************************)
MaxMainDepth == 2

GithubCommand(url, json) ==
    [kind |-> "github", url |-> url, json |-> json, max_depth |-> 0]
SiteCommand(url, json, depth) ==
    [kind |-> "site", url |-> url, json |-> json, max_depth |-> depth]

RepoUrl       == Text("https", "github.com", Path(TRUE, <<"owner", "repo">>), "")
RepoGit       == Text("https", "www.github.com", Path(TRUE, <<"owner", "repo.git">>), "")
RepoBare      == Text("", "", Path(FALSE, <<"github.com", "owner", "repo">>), "")
RepoOwnerOnly == Text("https", "github.com", Path(TRUE, <<"owner">>), "")
RepoElsewhere == Text("https", "gitlab.com", Path(TRUE, <<"owner", "repo">>), "")
RepoUrls == {RepoUrl, RepoGit, RepoBare, RepoOwnerOnly, RepoElsewhere}

Markdowns == {
    <<>>,
    <<UrlDocs, UrlOther>>,
    <<UrlDocs, UrlDocs>>,
    <<HMailto, HDocs, HUpper>> }
ReadmePages == {Unreachable, HttpPage(404, <<>>)} \cup {HttpPage(200, md) : md \in Markdowns}
Readmes == [main : ReadmePages, master : ReadmePages]

MainPages == {Unreachable, HttpPage(200, <<>>), HttpPage(200, <<HDocs, HOther>>),
              HttpPage(200, <<HDocs, HDocs>>)}
MainSites == [SitePaths -> MainPages]
MainNets == {{Response(200, NoLocation)}, {Response(404, NoLocation)},
             {Response(300, LocationX)}, {Response(301, LocationOther)}}
MainTransports == {t \in Transports : \A u \in VerifyUrls : t[u] \in MainNets}

Commands ==
    {GithubCommand(u, j) : u \in RepoUrls, j \in BOOLEAN}
    \cup {SiteCommand(u, j, d) : u \in {SeedPage, SeedBare, SeedRel}, j \in BOOLEAN,
                                 d \in 1..MaxMainDepth}

\* Mutant of IsOk: a Redirect does not count.
IsOkOnlyOk(r) == r.status.tag = "Ok"

\* LinkCheckResult::is_ok
IsOk(r) == r.status.tag \in {"Ok", "Redirect"}

\* The elements of a Vec.
Range(s) == {s[i] : i \in 1..Len(s)}

\* The orders a HashSet of these elements can be iterated in.
Orders(S) == {f \in [1..Cardinality(S) -> S] : \A x \in S : \E i \in DOMAIN f : f[i] = x}

\* Lines 91-97: all_links of handle_github_scan.
RECURSIVE GithubLinks(_, _)
GithubLinks(fs, i) ==
    IF i > Len(fs) THEN <<>>
    ELSE ExtractMarkdownLinks(fs[i][2]) \o GithubLinks(fs, i + 1)

\* Lines 138-144: all_links of handle_site_scan.
RECURSIVE SiteLinks(_, _)
SiteLinks(pages, i) ==
    IF i > Len(pages) THEN <<>>
    ELSE ExtractHtmlLinks(pages[i][2], pages[i][1]) \o SiteLinks(pages, i + 1)

\* The handler returns Ok(code) or Err (code 2), and main exits.
ExitWith(code) ==
    /\ exit_code' = Some(code)
    /\ mpc' = "exit"
    /\ UNCHANGED verify_vars

\* checker::check_links(all_links) is called and awaited.
CallCheckLinks(all_links) ==
    /\ urls' = all_links
    /\ vpc' = "start"
    /\ mpc' = "check"
    /\ UNCHANGED <<transport, next_url, in_progress, output, redirects, exit_code>>

\* Lines 84-107 of handle_github_scan, from the return of fetch_repo_files.
GithubScan(fs) ==
    IF fs = <<>> THEN ExitWith(0)
    ELSE IF GithubLinks(fs, 1) = <<>> THEN ExitWith(0)
    ELSE CallCheckLinks(GithubLinks(fs, 1))

\* fetch.rs line 39: parse_github_url fails, the error reaches main.
GithubReject ==
    /\ mpc = "run" /\ command.kind = "github"
    /\ ~IsSome(ParseGithubUrl(command.url))
    /\ ExitWith(2)
    /\ UNCHANGED <<wire, command, readme, files, crawl_vars, fn_vars>>

\* fetch.rs lines 39-54: the README of branch main is requested.
GithubFetchMain ==
    /\ mpc = "run" /\ command.kind = "github"
    /\ IsSome(ParseGithubUrl(command.url))
    /\ LET url == ReadmeUrl(Unwrap(ParseGithubUrl(command.url)), "main") IN
       wire' = Append(wire, Sent("github", url, "GET", url))
    /\ mpc' = "fetch_main"
    /\ UNCHANGED <<command, readme, files, exit_code, crawl_vars, verify_vars, fn_vars>>

\* fetch.rs lines 54-57 and 79, main.rs lines 82-107: the README of main is
\* there.
GithubMainOk ==
    /\ mpc = "fetch_main"
    /\ LET url == ReadmeUrl(Unwrap(ParseGithubUrl(command.url)), "main") IN
       /\ IsSome(FetchFile(readme, url))
       /\ files' = <<<<"README.md", Unwrap(FetchFile(readme, url))>>>>
       /\ wire' = Append(wire, Received("github", url, "GET", url, ServeRaw(readme, url)))
    /\ GithubScan(files')
    /\ UNCHANGED <<command, readme, crawl_vars, fn_vars>>

\* fetch.rs lines 58-65: the README of main is not there, master is tried.
GithubMainErr ==
    /\ mpc = "fetch_main"
    /\ LET url == ReadmeUrl(Unwrap(ParseGithubUrl(command.url)), "main")
           next == ReadmeUrl(Unwrap(ParseGithubUrl(command.url)), "master") IN
       /\ ~IsSome(FetchFile(readme, url))
       /\ wire' = wire \o <<Received("github", url, "GET", url, ServeRaw(readme, url)),
                            Sent("github", next, "GET", next)>>
    /\ mpc' = "fetch_master"
    /\ UNCHANGED <<command, readme, files, exit_code, crawl_vars, verify_vars, fn_vars>>

\* fetch.rs lines 65-68 and 79, main.rs lines 82-107: the README of master
\* is there.
GithubMasterOk ==
    /\ mpc = "fetch_master"
    /\ LET url == ReadmeUrl(Unwrap(ParseGithubUrl(command.url)), "master") IN
       /\ IsSome(FetchFile(readme, url))
       /\ files' = <<<<"README.md", Unwrap(FetchFile(readme, url))>>>>
       /\ wire' = Append(wire, Received("github", url, "GET", url, ServeRaw(readme, url)))
    /\ GithubScan(files')
    /\ UNCHANGED <<command, readme, crawl_vars, fn_vars>>

\* Mutant of GithubMasterErr: the error of the second request is handed to
\* the caller (fetch_file(..).await?).
GithubMasterErrFails ==
    /\ mpc = "fetch_master"
    /\ LET url == ReadmeUrl(Unwrap(ParseGithubUrl(command.url)), "master") IN
       /\ ~IsSome(FetchFile(readme, url))
       /\ wire' = Append(wire, Received("github", url, "GET", url, ServeRaw(readme, url)))
    /\ ExitWith(2)
    /\ UNCHANGED <<command, readme, files, crawl_vars, fn_vars>>

\* fetch.rs lines 69-79, main.rs lines 82-87: no README: a warning, Ok of
\* an empty Vec, and the scan ends.
GithubMasterErr ==
    /\ mpc = "fetch_master"
    /\ LET url == ReadmeUrl(Unwrap(ParseGithubUrl(command.url)), "master") IN
       /\ ~IsSome(FetchFile(readme, url))
       /\ wire' = Append(wire, Received("github", url, "GET", url, ServeRaw(readme, url)))
    /\ GithubScan(files)
    /\ UNCHANGED <<command, readme, files, crawl_vars, fn_vars>>

\* main.rs line 134: crawl_website(website_url, max_depth) is called.
SiteCrawlCall ==
    /\ mpc = "run" /\ command.kind = "site"
    /\ start_url' = command.url
    /\ max_depth' = command.max_depth
    /\ pc' = "start"
    /\ mpc' = "crawl"
    /\ UNCHANGED <<wire, site, base_domain, queue, visited, results, item, crawl_ret,
                   dequeued, requests, command, readme, files, exit_code,
                   verify_vars, fn_vars>>

\* Mutant of CrawlReturned: the pages are taken while the crawl goes on.
CrawlReturnedOrRunning(at) == at \in {"loop", "sleep", "done"}

\* main.rs line 134: crawl_website(..).await is over.
CrawlReturned(at) == at = "done"

\* main.rs line 134: the crawl returned Err, which the ? hands to main.
SiteCrawlErr ==
    /\ mpc = "crawl" /\ CrawlReturned(pc) /\ crawl_ret = "err"
    /\ ExitWith(2)
    /\ UNCHANGED <<wire, command, readme, files, crawl_vars, fn_vars>>

\* main.rs lines 134-158: the crawl returned the pages; the links are
\* extracted and made unique, and check_links is called.
SiteCrawlOk ==
    /\ mpc = "crawl" /\ CrawlReturned(pc) /\ crawl_ret # "err"
    /\ LET all_links == SiteLinks(results, 1) IN
       IF all_links = <<>> THEN ExitWith(0)
       ELSE \E unique_links \in Orders(Range(all_links)) : CallCheckLinks(unique_links)
    /\ UNCHANGED <<wire, command, readme, files, crawl_vars, fn_vars>>

\* #[serde(rename_all = "snake_case")], over the variants of LinkStatus.
SnakeCase(tag) ==
    CASE tag = "Ok" -> "ok"
      [] tag = "Redirect" -> "redirect"
      [] tag = "Broken" -> "broken"
      [] tag = "Timeout" -> "timeout"
      [] tag = "SslError" -> "ssl_error"
      [] tag = "TooManyRedirects" -> "too_many_redirects"
      [] tag = "DnsError" -> "dns_error"
      [] tag = "Error" -> "error"

\* Serialize for LinkStatus (http.rs lines 27-29), derived with
\* #[serde(tag = "status")]: a unit variant is written as its tag; the
\* variant Redirect(String) holds a string, which cannot carry a tag, and
\* serializing it is an error.
SerializeStatus(status) ==
    IF status.tag = "Redirect" THEN None ELSE Some(SnakeCase(status.tag))

\* print_results: Err when the results are printed as JSON and one of them
\* cannot be serialized, Ok (TRUE) otherwise.
PrintResults(rs, json) ==
    ~json \/ \A i \in 1..Len(rs) : IsSome(SerializeStatus(rs[i].status))

\* main.rs lines 113-121 and 164-172: broken_count and the code returned.
ReportCode(rs) ==
    LET broken_count == Cardinality({i \in 1..Len(rs) : ~IsOk(rs[i])}) IN
    IF broken_count > 0 THEN 1 ELSE 0

\* main.rs lines 110-121 and 161-172: check_links returned; the results are
\* printed, and an Err of print_results reaches main through the ?;
\* otherwise the exit code says whether a result is not ok.
MainReport ==
    /\ mpc = "check" /\ vpc = "done"
    /\ ExitWith(IF PrintResults(output, command.json) THEN ReportCode(output) ELSE 2)
    /\ UNCHANGED <<wire, command, readme, files, crawl_vars, fn_vars>>

\* http.rs line 89: check_links panicked; the process ends with the exit
\* code of a panic.
MainPanic ==
    /\ mpc = "check" /\ vpc = "panicked"
    /\ ExitWith(101)
    /\ UNCHANGED <<wire, command, readme, files, crawl_vars, fn_vars>>

MainNext ==
    \/ GithubReject
    \/ GithubFetchMain
    \/ GithubMainOk
    \/ GithubMainErr
    \/ GithubMasterOk
    \/ GithubMasterErr
    \/ SiteCrawlCall
    \/ SiteCrawlErr
    \/ SiteCrawlOk
    \/ MainReport
    \/ MainPanic
    \/ CrawlNext
    \/ VerifyNext

\* The process at the start of run(), for every command, site, repository
\* and network of the model.
MainInit ==
    /\ command \in Commands
    /\ site \in MainSites
    /\ readme \in Readmes
    /\ (command.kind = "site" => readme = NoReadme)
    /\ (command.kind = "github" => site = NoSite)
    /\ transport \in MainTransports
    /\ mpc = "run" /\ files = <<>> /\ exit_code = None
    /\ urls = <<>> /\ vpc = "idle" /\ next_url = 0
    /\ in_progress = EmptyBag /\ output = <<>> /\ redirects = EmptyBag
    /\ start_url = SeedPage /\ max_depth = 0
    /\ pc = "idle" /\ base_domain = None /\ queue = <<>> /\ visited = {}
    /\ results = <<>> /\ item = NoItem /\ crawl_ret = "none"
    /\ dequeued = <<>> /\ requests = <<>>
    /\ arg = <<>> /\ ret = None
    /\ wire = <<>>

SpecMain == MainInit /\ [][MainNext]_vars

(***************************************************************************)
(* The pure functions applied to one input each: is_ok to a result of      *)
(* every status, resolve_link and resolve_url to every base and href of    *)
(* the model, and extract_html_links to every page with every base text.   *)
(* The two resolve functions are applied a second time, to what the first  *)
(* application returned; ret holds the values returned so far.             *)
(***************************************************************************)
Hrefs == {HDocs, HPage, HRel, HDocsFrag, HFrag, HRoot, HUpper, HOther, HSub, HFtp,
          HMailto, HTel, HJs, HMailtoUpper}
BaseUrls == {Unwrap(UrlParse(t)) : t \in {SeedPage, SeedBare, SeedIp}}
Statuses == {Status(tag) : tag \in StatusTags \ {"Redirect"}}
            \cup {Redirect(Unknown), Redirect(UrlOther)}
CheckResults ==
    {LinkCheckResult(UrlDocs, st, m) :
        st \in Statuses,
        m \in {Message("HTTP {}", 200, NoText, <<>>),
               Message("Request timed out", 0, NoText, <<>>)}}
NoResult == LinkCheckResult(NoText, Status("Ok"), Message("", 0, NoText, <<>>))

Call(fn, base, href, html, result) ==
    [fn |-> fn, base |-> base, href |-> href, html |-> html, result |-> result]

CallsInit ==
    /\ arg \in {Call("is_ok", NoText, NoText, <<>>, r) : r \in CheckResults}
          \cup {Call(fn, b, h, <<>>, NoResult) :
                    fn \in {"resolve_link", "resolve_url"}, b \in BaseUrls, h \in Hrefs}
          \cup {Call("extract_html_links", b, NoText, html, NoResult) :
                    b \in {SeedPage, SeedBare, SeedRel}, html \in Htmls}
    /\ ret = <<>>
    /\ urls = <<>> /\ transport = <<>> /\ vpc = "idle" /\ next_url = 0
    /\ in_progress = EmptyBag /\ output = <<>> /\ redirects = EmptyBag
    /\ start_url = SeedPage /\ max_depth = 0 /\ site = NoSite
    /\ pc = "idle" /\ base_domain = None /\ queue = <<>> /\ visited = {}
    /\ results = <<>> /\ item = NoItem /\ crawl_ret = "none"
    /\ dequeued = <<>> /\ requests = <<>>
    /\ command = NoCommand /\ readme = NoReadme /\ mpc = "idle" /\ files = <<>>
    /\ exit_code = None
    /\ wire = <<>>

\* result.is_ok()
IsOkCall ==
    /\ arg.fn = "is_ok" /\ ret = <<>>
    /\ ret' = <<IsOk(arg.result)>>
    /\ UNCHANGED <<wire, arg, crawl_vars, verify_vars, main_vars>>

\* resolve_link(&base, href), then resolve_link(&base, &url) for the
\* Some(url) it returned.
ResolveLinkCall ==
    /\ arg.fn = "resolve_link"
    /\ \/ ret = <<>> /\ ret' = <<ResolveLink(arg.base, arg.href)>>
       \/ /\ Len(ret) = 1 /\ IsSome(ret[1])
          /\ ret' = Append(ret, ResolveLink(arg.base, Unwrap(ret[1])))
    /\ UNCHANGED <<wire, arg, crawl_vars, verify_vars, main_vars>>

\* resolve_url(&base, href), then resolve_url(&base, &url) for the
\* Some(url) it returned.
ResolveUrlCall ==
    /\ arg.fn = "resolve_url"
    /\ \/ ret = <<>> /\ ret' = <<ResolveUrl(arg.base, arg.href)>>
       \/ /\ Len(ret) = 1 /\ IsSome(ret[1])
          /\ ret' = Append(ret, ResolveUrl(arg.base, Unwrap(ret[1])))
    /\ UNCHANGED <<wire, arg, crawl_vars, verify_vars, main_vars>>

\* extract_html_links(html, base_url)
ExtractHtmlLinksCall ==
    /\ arg.fn = "extract_html_links" /\ ret = <<>>
    /\ ret' = <<ExtractHtmlLinks(arg.html, arg.base)>>
    /\ UNCHANGED <<wire, arg, crawl_vars, verify_vars, main_vars>>

CallsNext ==
    \/ IsOkCall
    \/ ResolveLinkCall
    \/ ResolveUrlCall
    \/ ExtractHtmlLinksCall

SpecCalls == CallsInit /\ [][CallsNext]_vars

(***************************************************************************)
(* Properties of the crawl (checked under SpecCrawl).                      *)
(***************************************************************************)
NoDuplicates(s) == \A i, j \in 1..Len(s) : s[i] = s[j] => i = j
ResultUrls == [i \in 1..Len(results) |-> results[i][1]]
\* The host a GET of the text goes to ("" when the text is no URL).
HostOf(t) == IF IsSome(UrlParse(t)) THEN Unwrap(UrlParse(t)).host ELSE ""
SchemeOf(t) == IF IsSome(UrlParse(t)) THEN Unwrap(UrlParse(t)).scheme ELSE ""
\* Url::parse(text).to_string(): the normalised text.
Normalized(t) == IF IsSome(UrlParse(t)) THEN UrlToString(Unwrap(UrlParse(t))) ELSE t

\* C3: the depths of the successively dequeued items never decrease, and
\* once an item of some depth has been dequeued, no item of a smaller depth
\* is left in the queue (all of depth d leave before any of depth d+1).
C3_BfsLayering ==
    /\ \A i \in 1..(Len(dequeued) - 1) : dequeued[i].depth <= dequeued[i + 1].depth
    /\ dequeued # <<>> =>
          \A i \in 1..Len(queue) : queue[i].depth >= dequeued[Len(dequeued)].depth

\* C3 witness: items of depth 1, 2 and 3 have been dequeued, two of depth 2.
C3_Witness ==
    \E i, j, k \in 1..Len(dequeued) :
        /\ i < j /\ j < k
        /\ dequeued[i].depth = 2 /\ dequeued[j].depth = 2 /\ dequeued[k].depth = 3

C5_SameDomainOnly ==
    /\ \A it \in Range(queue) \cup Range(dequeued) :
          it.depth > 1 =>
            /\ SchemeOf(it.url) \in {"http", "https"}
            /\ Some(HostOf(it.url)) = base_domain
    /\ \A i \in 2..Len(requests) :
            /\ SchemeOf(requests[i]) \in {"http", "https"}
            /\ Some(HostOf(requests[i])) = base_domain

\* C5 witness: the seed page, which links to a subdomain and to the same
\* domain over ftp, was expanded, and nothing was enqueued for it.
C5_Witness ==
    /\ max_depth >= 2 /\ pc = "sleep" /\ Len(results) = 1
    /\ results[1][2] = <<HSub, HFtp>>
    /\ queue = <<>>

C7_FetchFailureContained ==
    /\ [](\A i \in 1..Len(results) : IsSome(FetchPage(site, results[i][1])))
    /\ []((pc = "done" /\ requests # <<>>) => (crawl_ret = "ok" /\ queue = <<>>))
    /\ [][(pc = "fetch" /\ ~IsSome(FetchPage(site, item.url))) =>
             (pc' = "loop" /\ queue' = queue /\ results' = results)]_vars

\* C7 witness: a fetch failed (a 404), pages were fetched after it, and the
\* crawl returned Ok.
C7_Witness ==
    /\ pc = "done" /\ crawl_ret = "ok"
    /\ \E i \in 1..Len(requests) :
          /\ Serve(site, requests[i]).kind = "response"
          /\ Serve(site, requests[i]).code = 404
          /\ \E j \in (i + 1)..Len(requests) : requests[j] \in Range(ResultUrls)

\* C8: seed https://example.com/page, max_depth 2, the seed page linking to
\* /docs and https://other.com, both pages fetchable: no request ever goes
\* to other.com, and the crawl returns exactly the seed page and /docs.
C8_Scenario ==
    /\ start_url = SeedPage /\ max_depth = 2
    /\ site[PagePath] = HttpPage(200, <<HDocs, HOther>>)
    /\ site[DocsPath].kind = "response" /\ site[DocsPath].code = 200

C8_EndToEnd ==
    C8_Scenario =>
        /\ \A i \in 1..Len(requests) : HostOf(requests[i]) # "other.com"
        /\ (pc = "done" /\ crawl_ret = "ok") => ResultUrls = <<SeedPage, UrlDocs>>

\* C8 witness: the crawl of that scenario has returned.
C8_Witness == C8_Scenario /\ pc = "done" /\ crawl_ret = "ok" /\ Len(results) = 2

\* C9: when the start URL does not parse or has no domain, nothing is ever
\* enqueued, marked or requested, and the call ends in Err.
C9_InvalidStart ==
    (~IsSome(UrlParse(start_url)) \/ HostOf(start_url) = ""
        \/ IsIpAddress(HostOf(start_url))) =>
        /\ queue = <<>> /\ dequeued = <<>> /\ requests = <<>> /\ visited = {}
        /\ pc \in {"start", "done"}
        /\ pc = "done" => crawl_ret = "err"

\* C9 witness: a start URL with an IP address for a host was rejected.
C9_Witness == start_url = SeedIp /\ pc = "done" /\ crawl_ret = "err"

\* C26: with max_depth >= 1, every item that was ever in the queue has a
\* depth between 1 and max_depth; the seed is pushed with depth 1, and the
\* items pushed for the links of a page go to the back of the queue with
\* the depth of that page plus one; an
\* unvisited item is fetched whatever its depth; the fetch of a page of
\* depth max_depth leaves the queue as it is; and the crawl returns only
\* with the queue drained.
C26_DepthBound ==
    /\ [](max_depth >= 1 =>
            \A it \in Range(queue) \cup Range(dequeued) :
                1 <= it.depth /\ it.depth <= max_depth)
    /\ []((pc = "done" /\ crawl_ret = "ok") => queue = <<>>)
    /\ [][/\ Len(queue') > Len(queue) =>
               \/ pc = "start" /\ queue' = <<CrawlItem(start_url, 1)>>
               \/ /\ pc = "fetch" /\ item.depth < max_depth
                  /\ SubSeq(queue', 1, Len(queue)) = queue
                  /\ \A k \in (Len(queue) + 1)..Len(queue') :
                         queue'[k].depth = item.depth + 1
          /\ (pc = "fetch" /\ item.depth >= max_depth) => queue' = queue
          /\ (dequeued' # dequeued /\ Head(queue).url \notin visited) =>
               (pc' = "fetch" /\ requests' = Append(requests, Head(queue).url))
         ]_vars

\* C26 witness: with max_depth 2, a page of depth 2 that links to pages of
\* the site was fetched and not expanded, a second item of depth 2 was
\* dequeued after it, and the crawl has returned.
C26_Witness ==
    /\ max_depth = 2 /\ pc = "done" /\ crawl_ret = "ok"
    /\ \E i, j \in 1..Len(dequeued) : \E k \in 1..Len(results) :
          /\ i < j /\ dequeued[i].depth = 2 /\ dequeued[j].depth = 2
          /\ results[k][1] = dequeued[i].url
          /\ ExtractSameDomainLinks(results[k][2], results[k][1],
                                    Unwrap(base_domain)) # <<>>
          /\ dequeued[j].url \notin {dequeued[m].url : m \in 1..(j - 1)}

\* C27: every crawl ends: whatever the depth limit and the links of the
\* pages, cycles and self-links included, the call eventually returns, and
\* a crawl that has entered its loop eventually returns Ok with the queue
\* empty.
C27_CrawlTerminates ==
    /\ <>(pc = "done")
    /\ (pc = "loop") ~> (pc = "done" /\ crawl_ret = "ok" /\ queue = <<>>)

\* C27 witness: a crawl of three pages, one of which links to itself and
\* one of which was enqueued again after its fetch, has returned.
C27_Witness ==
    /\ pc = "done" /\ crawl_ret = "ok" /\ queue = <<>> /\ Len(results) = 3
    /\ \E k \in 1..Len(results) :
          results[k][1] \in Range(ExtractSameDomainLinks(results[k][2], results[k][1],
                                                        Unwrap(base_domain)))
    /\ Len(dequeued) > Len(requests)

\* The URL each request of the crawl went to.
RequestedUrls == [i \in 1..Len(requests) |-> Normalized(requests[i])]

\* C28 as claimed: no page is fetched twice, the start page included: the
\* requests of a crawl go to different URLs, whatever links to visited
\* pages are found; and such links raise no error: a crawl that has
\* entered its loop returns Ok.
C28_NoSecondFetch ==
    /\ NoDuplicates(RequestedUrls)
    /\ (pc = "done" /\ requests # <<>>) => crawl_ret = "ok"

(***************************************************************************)
(* Properties of check_links (SpecVerify, SpecLoad) and of the classifier  *)
(* (SpecClassify).                                                         *)
(***************************************************************************)
Occurrences(seq, u) == Cardinality({i \in 1..Len(seq) : seq[i] = u})
OutputUrls == [i \in 1..Len(output) |-> output[i].url]
OutputTags == {output[i].status.tag : i \in 1..Len(output)}
\* How many running checks are checks of u.
Running(u) ==
    LET of_u == {c \in BagToSet(in_progress) : c.url = u} IN
    BagCardinality([c \in of_u |-> in_progress[c]])

\* C1: every URL handed out is either still being checked or has exactly one
\* result; and the Vec check_links returns is as long as the input and holds
\* each URL as often as the input does.
C1_OneResultPerUrl ==
    /\ vpc \in {"run", "done"} =>
          \A u \in VerifyUrls :
              Occurrences(OutputUrls, u) + Running(u)
                  = Occurrences(SubSeq(urls, 1, next_url), u)
    /\ vpc = "done" =>
          /\ Len(output) = Len(urls)
          /\ \A u \in VerifyUrls : Occurrences(OutputUrls, u) = Occurrences(urls, u)

\* C1 witness: a call with a URL given twice has returned, one probe having
\* succeeded, one met an HTTP error status and one failed in the transport.
C1_Witness ==
    /\ vpc = "done" /\ Len(urls) = 3 /\ urls[1] = urls[2] /\ urls[2] # urls[3]
    /\ {"Ok", "Error", "Timeout"} \subseteq OutputTags

\* C2: the checks handed out and not yet completed are those of the
\* in-progress queue, and there are never more than 50 of them.
C2_AtMostFiftyInFlight ==
    /\ next_url - Len(output) = BagCardinality(in_progress)
    /\ next_url - Len(output) <= 50

\* C2 witness: of 200 URLs, 50 are being checked, some are done and some
\* have not been handed out.
C2_Witness ==
    /\ Len(urls) = 200
    /\ BagCardinality(in_progress) = 50
    /\ Len(output) > 0 /\ next_url < Len(urls)

\* What the claims of C10 share: 2xx is Ok, 404 and 410 are Broken, every
\* code outside 2xx, 3xx, 404 and 410 is Error, 3xx is Redirect, and only
\* a Redirect has a target.
C10_Tags(code, result) ==
    /\ result.status.tag \in StatusTags
    /\ result.url = arg.url
    /\ (200 <= code /\ code <= 299) <=> result.status.tag = "Ok"
    /\ (300 <= code /\ code <= 399) <=> result.status.tag = "Redirect"
    /\ code \in {404, 410} <=> result.status.tag = "Broken"
    /\ (code < 200 \/ (code >= 400 /\ code \notin {404, 410}))
          <=> result.status.tag = "Error"
    /\ result.status.tag = "Redirect" <=> IsSome(result.status.target)

\* C10 as claimed: the target of a Redirect is the Location header's value,
\* or "unknown" when there is no Location header.
C10_Claimed ==
    IsSome(ret) =>
        /\ C10_Tags(arg.code, Unwrap(ret))
        /\ Unwrap(ret).status.tag = "Redirect" =>
              Unwrap(ret).status.target =
                  Some(IF IsSome(arg.location)
                       THEN Unwrap(arg.location).text ELSE Unknown)

\* C10 amended: the target of a Redirect is the Location header's value
\* when the header is there and its value is visible ASCII, and "unknown"
\* when the header is absent or its value is not visible ASCII.
C10_Classifier ==
    IsSome(ret) =>
        /\ C10_Tags(arg.code, Unwrap(ret))
        /\ Unwrap(ret).status.tag = "Redirect" =>
              Unwrap(ret).status.target =
                  Some(IF IsSome(arg.location) /\ Unwrap(arg.location).visible_ascii
                       THEN Unwrap(arg.location).text ELSE Unknown)

\* C10 witness: a 307 whose Location value is not visible ASCII has been
\* classified as a Redirect to "unknown".
C10_Witness ==
    /\ IsSome(ret) /\ arg.code = 307 /\ arg.location = LocationBytes
    /\ Unwrap(ret).status = Redirect(Unknown)

(***************************************************************************)
(* Properties of categorize_error (checked under SpecCategorize).          *)
(***************************************************************************)
HasWord(word) == \E i \in DOMAIN arg.desc : arg.desc[i] = word

\* C11: a transport failure is classified in this priority order, whatever
\* the other flags and the description are: the timeout flag gives Timeout;
\* else the redirect flag gives TooManyRedirects; else the connect flag
\* gives DnsError when the description holds "dns" and Error otherwise;
\* else a description holding "certificate" or "ssl" gives SslError; else
\* Error, with the description itself as the message.
C11_FailurePriority ==
    IsSome(ret) =>
        LET r == Unwrap(ret) IN
        /\ r.url = arg.url
        /\ r.status.target = None
        /\ r.status.tag =
              IF arg.timeout THEN "Timeout"
              ELSE IF arg.redirect THEN "TooManyRedirects"
              ELSE IF arg.connect /\ HasWord("dns") THEN "DnsError"
              ELSE IF arg.connect THEN "Error"
              ELSE IF HasWord("certificate") \/ HasWord("ssl") THEN "SslError"
              ELSE "Error"
        /\ (~arg.timeout /\ ~arg.redirect /\ ~arg.connect
               /\ ~HasWord("certificate") /\ ~HasWord("ssl"))
              => r.message.fmt = "{}" /\ r.message.desc = arg.desc
        /\ (r.message.fmt = "{}" /\ r.message.desc # <<>>)
              => (~arg.timeout /\ ~arg.redirect /\ ~arg.connect)

\* C11 witness: a connect failure whose description holds both "dns" and
\* "certificate" has been classified as DnsError.
C11_Witness ==
    /\ IsSome(ret) /\ "desc" \in DOMAIN arg
    /\ ~arg.timeout /\ ~arg.redirect /\ arg.connect
    /\ arg.desc = <<"dns", "error", "certificate">>
    /\ Unwrap(ret).status.tag = "DnsError"

(***************************************************************************)
(* Properties of the crawl's timing (checked under SpecCrawl).             *)
(***************************************************************************)
IsPage(e) ==
    /\ e.ev = "answer" /\ e.by = "crawl"
    /\ Unwrap(e.outcome).kind = "response" /\ IsSuccess(Unwrap(e.outcome).code)
CrawlSent == Cardinality({i \in 1..Len(wire) : wire[i].ev = "request" /\ wire[i].by = "crawl"})
CrawlAnswered == Cardinality({i \in 1..Len(wire) : wire[i].ev = "answer" /\ wire[i].by = "crawl"})
InFlight == CrawlSent - CrawlAnswered

\* C17: what follows a successful page fetch on the wire is the completed
\* sleep: no request is sent between the page's arrival and the end of the
\* delay, and the page's URL is the one the delay was taken for.
C17_DelayAfterPage ==
    \A i \in 1..Len(wire) :
        IsPage(wire[i]) =>
            \/ i = Len(wire) /\ pc = "sleep"
            \/ i < Len(wire) /\ wire[i + 1].ev = "sleep" /\ wire[i + 1].for = wire[i].for

\* C17 witness: a page was fetched, the delay completed, and the next fetch
\* has begun.
C17_Witness ==
    \E i \in 1..Len(wire) :
        /\ i + 2 <= Len(wire)
        /\ IsPage(wire[i]) /\ wire[i + 1].ev = "sleep" /\ wire[i + 2].ev = "request"

\* C18: at most one page fetch is in flight, a fetch is in flight exactly
\* when the crawl waits for it, and no step taken while a fetch stays
\* outstanding changes the queue or the visited set.
C18_SequentialFetches ==
    /\ [](InFlight \in {0, 1} /\ (InFlight = 1 <=> pc = "fetch"))
    /\ [][(InFlight = 1 /\ InFlight' = 1) => UNCHANGED <<queue, visited>>]_vars

\* C18 witness: a fetch is in flight while two items wait in the queue and
\* a page has already been fetched.
C18_Witness ==
    /\ pc = "fetch" /\ InFlight = 1 /\ Len(queue) >= 2 /\ Len(results) >= 1

(***************************************************************************)
(* Properties of check_links on the wire (checked under SpecVerify).       *)
(***************************************************************************)
IsCheckRequest(e) == e.ev = "request" /\ e.by = "check"
IsCheckAnswer(e) == e.ev = "answer" /\ e.by = "check"
IsCheckReturn(e) == e.ev = "returned" /\ e.by = "check"
CheckRequests == SelectSeq(wire, IsCheckRequest)
CheckAnswers == SelectSeq(wire, IsCheckAnswer)
CheckReturns == SelectSeq(wire, IsCheckReturn)
For(log, u) == {i \in 1..Len(log) : log[i].for = u}
HandedOut == SubSeq(urls, 1, next_url)

C13_GetFallback ==
    \A k \in 1..Len(CheckReturns) :
        Unwrap(CheckReturns[k].outcome).kind = "failure" =>
            \E i \in 1..Len(CheckRequests) :
                /\ CheckRequests[i].for = CheckReturns[k].for
                /\ CheckRequests[i].method = "GET"

\* Whether an answer is a 3xx response with a Location header.
IsRedirectAnswer(a) ==
    a.kind = "response" /\ IsRedirection(a.code) /\ IsSome(a.location)

\* C14 as claimed: when a request is answered by a 3xx response with a
\* Location header L, no request is sent to L and the URL's result is
\* Redirect(L).
C14_ImmediateTargetOnly ==
    /\ \A h \in BagToSet(redirects) : ~IsRedirectAnswer(h.answer)
    /\ \A i \in 1..Len(CheckAnswers) :
          LET a == Unwrap(CheckAnswers[i].outcome) IN
          (IsRedirectAnswer(a) /\ Unwrap(a.location).visible_ascii) =>
              \E k \in 1..Len(output) :
                  /\ output[k].url = CheckAnswers[i].for
                  /\ output[k].status = Redirect(Unwrap(a.location).text)

\* C15: when the client cannot be built the call ends there: nothing has
\* been taken from the iterator, no request has been sent and there is no
\* result.
C15_ClientFailureAborts ==
    vpc = "panicked" =>
        /\ next_url = 0 /\ in_progress = EmptyBag
        /\ wire = <<>> /\ redirects = EmptyBag
        /\ output = <<>>

\* C15 witness: a call with three URLs has ended in the panic.
C15_Witness == vpc = "panicked" /\ Len(urls) = 3

\* C16: the k-th check to complete has the k-th result of the output, so
\* that the result of a check that completed earlier comes first, whatever
\* the order of the input.
C16_CompletionOrder ==
    /\ Len(output) = Len(CheckReturns)
    /\ \A k \in 1..Len(output) :
          /\ output[k].url = CheckReturns[k].for
          /\ output[k] = CheckSingleLink(CheckReturns[k].for,
                                         Unwrap(CheckReturns[k].outcome))

\* C16 witness: two URLs were given, and the call has returned the result
\* of the second before the result of the first.
C16_Witness ==
    /\ vpc = "done" /\ Len(urls) = 2 /\ urls[1] # urls[2]
    /\ OutputUrls = <<urls[2], urls[1]>>
    /\ CheckReturns[1].for = urls[2]

\* C29: check_links returns only when every URL has been handed out and
\* every check has completed, with one result for each URL: nothing cuts
\* the call short; and a call that runs eventually returns, with all the
\* results.
C29_VerifierTerminates ==
    /\ [](vpc = "done" =>
            /\ next_url = Len(urls) /\ in_progress = EmptyBag
            /\ Len(output) = Len(urls))
    /\ [][vpc' = "done" /\ vpc # "done" =>
             (in_progress = EmptyBag /\ Len(output) = Len(urls))]_vars
    /\ (vpc = "run") ~> (vpc = "done" /\ Len(output) = Len(urls))

\* C29 witness: a call with three URLs has returned its three results,
\* one of them after the client followed redirects up to its limit.
C29_Witness ==
    /\ vpc = "done" /\ Len(urls) = 3 /\ Len(output) = 3
    /\ "TooManyRedirects" \in OutputTags
    /\ BagCardinality(redirects) >= MaxRedirects

(***************************************************************************)
(* Properties of the scans (checked under SpecMain).                       *)
(***************************************************************************)
\* C19: in a site scan every request and answer of the crawl comes before
\* the first request of check_links; when check_links is called the crawl
\* has returned Ok with no fetch outstanding, and from then on the crawl
\* sends nothing and its pages do not change.
C19_CrawlBeforeChecks ==
    /\ [](/\ \A i, j \in 1..Len(wire) :
               (wire[i].by = "crawl" /\ wire[j].by = "check") => i < j
          /\ (command.kind = "site" /\ vpc # "idle") =>
               (pc = "done" /\ crawl_ret = "ok" /\ InFlight = 0)
          /\ (command.kind = "site" /\ Len(CheckRequests) > 0) => vpc # "idle")
    /\ [][(command.kind = "site" /\ vpc # "idle") =>
             (results' = results /\ requests' = requests)]_vars

\* C19 witness: a site scan whose crawl fetched two pages has sent a
\* request of check_links.
C19_Witness ==
    /\ command.kind = "site" /\ Len(results) = 2
    /\ Len(CheckRequests) >= 1 /\ wire[Len(wire)].by = "check"

\* C20 as claimed: in the site scan and in the GitHub scan, the list that
\* check_links is called with holds no URL twice.
C20_NoDuplicateChecks == vpc # "idle" => NoDuplicates(urls)

\* Whether the handler's fallible call returned Err: crawl_website in a site
\* scan, fetch_repo_files in a GitHub scan.
ScanFailed ==
    \/ command.kind = "site" /\ crawl_ret = "err"
    \/ command.kind = "github" /\ ~IsSome(ParseGithubUrl(command.url))

\* C21 as claimed: when the process has exited, its exit code is 2 if the
\* crawl or the repository fetch returned an error; 1 if check_links
\* returned and at least one result is not is_ok; 0 if check_links returned
\* and every result is_ok, and 0 if there was nothing to check.
C21_ExitCodes ==
    IsSome(exit_code) =>
        /\ ScanFailed => exit_code = Some(2)
        /\ (vpc = "done" /\ \E i \in 1..Len(output) : ~IsOk(output[i]))
              => exit_code = Some(1)
        /\ (vpc = "done" /\ \A i \in 1..Len(output) : IsOk(output[i]))
              => exit_code = Some(0)
        /\ (vpc = "idle" /\ ~ScanFailed) => exit_code = Some(0)

IsGithubRequest(e) == e.ev = "request" /\ e.by = "github"
IsGithubAnswer(e) == e.ev = "answer" /\ e.by = "github"
GithubRequests == SelectSeq(wire, IsGithubRequest)
GithubAnswers == SelectSeq(wire, IsGithubAnswer)
\* Whether the answer to a request for a README is a failure of fetch_file.
IsFetchFailure(e) ==
    Unwrap(e.outcome).kind = "error" \/ ~IsSuccess(Unwrap(e.outcome).code)
Repo == Unwrap(ParseGithubUrl(command.url))

C22_IsOk ==
    (arg.fn = "is_ok" /\ ret # <<>>) =>
        /\ ret[1] = (arg.result.status.tag \in {"Ok", "Redirect"})
        /\ arg.result.status.tag \in {"Broken", "Timeout", "SslError",
                                      "TooManyRedirects", "DnsError", "Error"}
              => ret[1] = FALSE

\* C22 witness: is_ok has returned true for a Redirect.
C22_Witness ==
    /\ arg.fn = "is_ok" /\ ret = <<TRUE>>
    /\ arg.result.status = Redirect(UrlOther)

\* Whether the href begins with "#", "mailto:", "tel:" or "javascript:".
IsSkippedHref(href) ==
    \/ href.scheme = "" /\ href.host = "" /\ href.path = EmptyPath /\ href.frag # ""
    \/ href.scheme \in {"mailto", "tel", "javascript"}

\* C23 as claimed: for every base, resolve_link and resolve_url return no
\* result for an href that begins with "#", "mailto:", "tel:" or
\* "javascript:".
C23_SkippedTargets ==
    (arg.fn \in {"resolve_link", "resolve_url"} /\ ret # <<>>
        /\ IsSkippedHref(arg.href)) => ret[1] = None

\* What the extractor is claimed to return for the hrefs from index i on:
\* each href that is not fragment-only, joined to the base, when the
\* joined URL is http or https.
RECURSIVE ClaimedLinks(_, _, _)
ClaimedLinks(html, i, base) ==
    IF i > Len(html) THEN <<>>
    ELSE LET joined == UrlJoin(base, html[i])
             rest == ClaimedLinks(html, i + 1, base)
         IN  IF /\ ~IsSkippedHref(html[i])
                /\ IsSome(joined)
                /\ Unwrap(joined).scheme \in {"http", "https"}
             THEN <<Unwrap(joined)>> \o rest
             ELSE rest

\* C24 as claimed: for a base URL that parses, extract_html_links returns,
\* in document order, the absolute http or https URLs of the page's hrefs,
\* the relative ones resolved against the base; hrefs of another scheme and
\* hrefs beginning with "#" are not in the output.
C24_ExtractorOutput ==
    (arg.fn = "extract_html_links" /\ ret # <<>> /\ IsSome(UrlParse(arg.base))) =>
        /\ ret[1] = ClaimedLinks(arg.html, 1, Unwrap(UrlParse(arg.base)))
        /\ \A k \in 1..Len(ret[1]) :
              ret[1][k].scheme \in {"http", "https"} /\ ret[1][k].host # ""

\* C25 as claimed: for an href that is already absolute, resolving what a
\* resolution returned returns the same again.
C25_ResolveIdempotent ==
    (arg.fn \in {"resolve_link", "resolve_url"} /\ arg.href.scheme # ""
        /\ Len(ret) = 2) => ret[2] = ret[1]

(***************************************************************************)
(* Completeness and order of the crawl (checked under SpecCrawl).          *)
(***************************************************************************)
\* The same-domain links on the page a GET of u returns (none when the
\* fetch of u fails).
LinksOn(u) ==
    LET r == FetchPage(site, u) IN
    IF IsSome(r)
    THEN Range(ExtractSameDomainLinks(Unwrap(r), u, Unwrap(base_domain)))
    ELSE {}

\* The URLs reachable from the seed through a chain of at most k
\* successfully fetched pages; the seed is reached through the empty chain.
RECURSIVE ReachableWithin(_)
ReachableWithin(k) ==
    IF k = 0 THEN {start_url}
    ELSE LET prev == ReachableWithin(k - 1) IN
         prev \cup UNION {LinksOn(u) : u \in prev}

\* The depth of the first dequeued item with URL u.
FirstDepth(u) ==
    LET first == CHOOSE i \in 1..Len(dequeued) :
                     /\ dequeued[i].url = u
                     /\ \A j \in 1..(i - 1) : dequeued[j].url # u
    IN  dequeued[first].depth

\* C31: when crawl_website returns Ok, every URL reachable from the seed
\* through a chain of fewer than max_depth successfully fetched pages has
\* been requested, and was first dequeued at the smallest depth at which
\* it is reachable (the length of its shortest chain plus one); at every
\* moment, a URL dequeued or still queued again has no smaller depth than
\* at its first dequeue.
C31_Completeness ==
    /\ (pc = "done" /\ crawl_ret = "ok") =>
           \A k \in 0..(max_depth - 1) :
               \A u \in ReachableWithin(k) :
                   /\ u \in Range(requests)
                   /\ (k = 0 \/ u \notin ReachableWithin(k - 1)) =>
                          FirstDepth(u) = k + 1
    /\ \A i \in 1..Len(dequeued) :
           /\ \A j \in i..Len(dequeued) :
                  dequeued[j].url = dequeued[i].url =>
                      dequeued[i].depth <= dequeued[j].depth
           /\ \A j \in 1..Len(queue) :
                  queue[j].url = dequeued[i].url =>
                      dequeued[i].depth <= queue[j].depth

\* C31 witness: a crawl with depth limit 3 has returned; a page two links
\* away from the seed was reached and requested, a page of the chain was
\* found twice, and one request failed.
C31_Witness ==
    /\ pc = "done" /\ crawl_ret = "ok" /\ max_depth = 3
    /\ ReachableWithin(2) # ReachableWithin(1)
    /\ ReachableWithin(1) # ReachableWithin(0)
    /\ ReachableWithin(2) \subseteq Range(requests)
    /\ Len(dequeued) > Len(requests)
    /\ Len(requests) > Len(results)

\* The place of the request for u in the request log (0 if there is none).
RequestIndex(u) ==
    IF \E i \in 1..Len(requests) : requests[i] = u
    THEN CHOOSE i \in 1..Len(requests) : requests[i] = u
    ELSE 0

\* Whether the wire shows a 2xx answer to a GET of u.
FetchedSuccessfully(u) ==
    \E i \in 1..Len(wire) : IsPage(wire[i]) /\ wire[i].url = u

\* The URL each result is the page of.
ResultPages == [i \in 1..Len(results) |-> Normalized(results[i][1])]

\* C32 as claimed: at every moment of a crawl no URL is in the results
\* twice, each result's URL is in visited and was answered by a 2xx
\* response whose body is the content recorded, the results are in the
\* order of their requests, the depths at which they were fetched never
\* decrease along the results, and once the seed's fetch has succeeded the
\* seed is the first result.
C32_ResultSequence ==
    /\ NoDuplicates(ResultPages)
    /\ \A i \in 1..Len(results) :
           /\ results[i][1] \in visited
           /\ FetchedSuccessfully(results[i][1])
           /\ FetchPage(site, results[i][1]) = Some(results[i][2])
    /\ \A i, j \in 1..Len(results) :
           i < j =>
               /\ 0 < RequestIndex(results[i][1])
               /\ RequestIndex(results[i][1]) < RequestIndex(results[j][1])
               /\ FirstDepth(results[i][1]) <= FirstDepth(results[j][1])
    /\ FetchedSuccessfully(start_url) =>
           /\ results # <<>>
           /\ results[1][1] = start_url

\* Whether the wire shows that the fetch of u failed (a transport error or
\* a response that is not 2xx).
FetchFailed(u) ==
    \E i \in 1..Len(wire) :
        /\ wire[i].ev = "answer" /\ wire[i].by = "crawl" /\ wire[i].url = u
        /\ ~IsPage(wire[i])

QueuedCopies(q, u) == Cardinality({i \in 1..Len(q) : q[i].url = u})

\* C33: a URL is in visited from the step that sends its request on; the
\* page of a URL whose fetch failed is requested once in the crawl and the
\* URL stays in visited; after the failure no step adds an item with that
\* URL to the queue, and the step that dequeues an item with that URL
\* sends no request.
C33_NoRetry ==
    /\ [](/\ Range(requests) \subseteq visited
          /\ pc = "fetch" => item.url \in visited
          /\ \A u \in Range(requests) :
                 FetchFailed(u) =>
                     /\ u \in visited
                     /\ Occurrences(RequestedUrls, Normalized(u)) = 1)
    /\ [][\A u \in Range(requests) :
              FetchFailed(u) =>
                  /\ QueuedCopies(queue', u) <= QueuedCopies(queue, u)
                  /\ (queue # <<>> /\ Head(queue).url = u /\ dequeued' # dequeued) =>
                         /\ requests' = requests /\ wire' = wire
                         /\ pc' = "loop"]_vars

\* C33 witness: the crawl has returned; the fetch of a URL failed, a second
\* item with that URL was dequeued afterwards, and a page requested after
\* the failure, and expanded, links to that URL.
C33_Witness ==
    /\ pc = "done" /\ crawl_ret = "ok"
    /\ \E u \in Range(requests) :
           /\ FetchFailed(u)
           /\ Cardinality({i \in 1..Len(dequeued) : dequeued[i].url = u}) >= 2
           /\ \E k \in 1..Len(results) :
                  /\ RequestIndex(results[k][1]) > RequestIndex(u)
                  /\ FirstDepth(results[k][1]) < max_depth
                  /\ u \in LinksOn(results[k][1])

(***************************************************************************)
(* The politeness delay (checked under SpecCrawlFair).                     *)
(***************************************************************************)
IsFailedFetch(e) == e.ev = "answer" /\ e.by = "crawl" /\ ~IsPage(e)
Delays == Cardinality({i \in 1..Len(wire) : wire[i].ev = "sleep"})

Min(a, b) == IF a <= b THEN a ELSE b
InProgress == BagCardinality(in_progress)
NotCompleted == Len(urls) - Len(output)

\* C35: check_links waits for its running checks (a check completes, or
\* the client follows a redirect) only with 50 checks in flight or with no
\* URL left to hand out, and in every state where it waits the number in
\* flight is min(50, number of URLs not yet completed); every URL of the
\* input is eventually handed out, and a running call always comes to
\* wait with that many checks in flight.
C35_WorkConserving ==
    /\ [][(Len(output') > Len(output) \/ redirects' # redirects) =>
              (InProgress = 50 \/ next_url = Len(urls))]_vars
    /\ []((vpc = "run" /\ ~ENABLED Dispatch) =>
              InProgress = Min(50, NotCompleted))
    /\ (vpc = "run") ~> (next_url = Len(urls))
    /\ (vpc = "run") ~> (~ENABLED Dispatch /\ InProgress = Min(50, NotCompleted))

\* C35 witness: of 51 URLs, the first check has completed and the last URL
\* has been handed out in its place: 50 checks are in flight again.
C35_Witness ==
    /\ vpc = "run" /\ Len(urls) = 51
    /\ Len(output) = 1 /\ next_url = 51 /\ InProgress = 50

(***************************************************************************)
(* Independence of the checks (checked under SpecVerify, which takes the   *)
(* checks' steps in every order).                                          *)
(***************************************************************************)
\* The results the check c can end with when it runs alone on the network.
RECURSIVE SoloResults(_)
SoloResults(c) ==
    UNION {IF Follows(c, a)
           THEN SoloResults([c EXCEPT
                    !.at = UrlToString(Unwrap(RedirectLocation(c.at, a))),
                    !.hops = @ + 1])
           ELSE {CheckSingleLink(c.url, SendOutcome(c, a))} :
           a \in transport[c.at]}

\* Every request to one URL ends the same way.
FixedOutcomes == \A u \in DOMAIN transport : Cardinality(transport[u]) = 1

ResultBag(seq) == [r \in Range(seq) |-> Occurrences(seq, r)]

\* The results of the input's URLs, each checked alone, in input order.
SoloOutput == [i \in 1..Len(urls) |-> CHOOSE r \in SoloResults(Check(urls[i])) : TRUE]

\* C36: whatever the order in which the checks take their steps and
\* complete, each collected result is one that the check of its URL can end
\* with when it runs alone, and the outcome it was built from is the one
\* its own request received; with fixed per-URL outcomes, the results
\* returned are, as a multiset of (url, status, message), those of the
\* URLs checked one by one.
C36_InterleavingIndependence ==
    /\ \A i \in 1..Len(output) :
           /\ output[i] \in SoloResults(Check(output[i].url))
           /\ \E k \in 1..Len(wire) :
                  /\ wire[k].ev = "returned" /\ wire[k].for = output[i].url
                  /\ output[i] = CheckSingleLink(output[i].url, Unwrap(wire[k].outcome))
    /\ (vpc = "done" /\ FixedOutcomes) =>
           ResultBag(output) = ResultBag(SoloOutput)

\* C36 witness: with fixed outcomes, three checks have completed in an
\* order that is not the input's; two URLs ended differently, and one
\* check followed a redirect to the other URL.
C36_Witness ==
    /\ vpc = "done" /\ FixedOutcomes /\ Len(urls) = 3
    /\ OutputUrls # urls
    /\ Cardinality(OutputTags) >= 2
    /\ redirects # EmptyBag

(***************************************************************************)
(* The crawl with a depth limit below 2 (checked under SpecCrawl).         *)
(***************************************************************************)
\* The states of a crawl that fetches the seed and nothing else, written
\* without the depth limit: before the validation, after a failed start,
\* with the seed queued, with the seed's request out, in the delay after
\* the seed's page, and after the seed's fetch has ended.
SeedOnlyRun ==
    LET seed == CrawlItem(start_url, 1)
        page == FetchPage(site, start_url)
        sent == <<Sent("crawl", start_url, "GET", start_url)>>
        got  == sent \o <<Received("crawl", start_url, "GET", start_url,
                                   Serve(site, start_url))>>
        fresh == /\ queue = <<>> /\ visited = {} /\ results = <<>>
                 /\ dequeued = <<>> /\ requests = <<>> /\ wire = <<>>
        asked == /\ queue = <<>> /\ visited = {start_url}
                 /\ dequeued = <<seed>> /\ requests = <<start_url>>
    IN  \/ pc = "start" /\ crawl_ret = "none" /\ fresh
        \/ pc = "done" /\ crawl_ret = "err" /\ fresh
        \/ /\ pc = "loop" /\ crawl_ret = "none"
           /\ queue = <<seed>> /\ visited = {} /\ results = <<>>
           /\ dequeued = <<>> /\ requests = <<>> /\ wire = <<>>
        \/ pc = "fetch" /\ crawl_ret = "none" /\ asked /\ results = <<>> /\ wire = sent
        \/ /\ pc = "sleep" /\ crawl_ret = "none" /\ asked /\ IsSome(page)
           /\ results = <<<<start_url, Unwrap(page)>>>> /\ wire = got
        \/ /\ pc \in {"loop", "done"} /\ asked
           /\ crawl_ret = (IF pc = "done" THEN "ok" ELSE "none")
           /\ IF IsSome(page)
              THEN /\ results = <<<<start_url, Unwrap(page)>>>>
                   /\ wire = got \o <<Slept("crawl", start_url)>>
              ELSE results = <<>> /\ wire = got

\* C37: with max_depth 0, as with max_depth 1, every state of the crawl is
\* a state of the run that fetches the seed only: the seed is queued with
\* depth 1 and requested, no other item is ever queued, and the result has
\* length 0 or 1; the two limits give the same states, requests and
\* results.
C37_DepthZero ==
    /\ max_depth \in {0, 1} => (SeedOnlyRun /\ Len(results) <= 1)
    /\ (max_depth \in {0, 1} /\ pc # "start" /\ crawl_ret # "err") =>
           \A i \in 1..Len(queue \o dequeued) :
               (queue \o dequeued)[i] = CrawlItem(start_url, 1)

\* C37 witness: a crawl with max_depth 0 has returned one page, the
\* seed's, which has links to pages of the site.
C37_Witness ==
    /\ max_depth = 0 /\ pc = "done" /\ crawl_ret = "ok"
    /\ Len(results) = 1 /\ requests = <<start_url>>
    /\ LinksOn(start_url) # {}

====
